---- MODULE Spec2Model ----
(***************************************************************************)
(* Model of the auto-roast firmware: the Device that drives a FreshRoast   *)
(* SR800 through a stepper motor (the adjuster) and a servo (the button),  *)
(* the byte-command dispatcher that drives it, and the earlier State type  *)
(* with direction-reversal backlash compensation.                          *)
(*                                                                         *)
(* Numbers.  CalibrationConfig.StepsPerIncrement, BackstepRatio and         *)
(* Device.remainder are float32 in the source.  They are modelled in fixed *)
(* point, as integer multiples of 1/Scale.  Every value used here is a     *)
(* small multiple of 1/4, which float32 represents exactly, as it does the *)
(* products and sums formed from them, so the fixed-point arithmetic is    *)
(* the float32 arithmetic.  int32 never overflows for the arguments the    *)
(* callers pass (|n| <= 12 increments), so int32 is modelled by Int.       *)
(*                                                                         *)
(* Time.  The source stores time.Time values and only ever reads            *)
(* startTime.IsZero() and time.Since(lastClick) > 3s.  lastClick is kept   *)
(* as the number of whole seconds elapsed since that click (an age that    *)
(* stops growing at MaxAge), NoTime being the zero time.Time and Now the   *)
(* value time.Now() gives; startTime is NoTime or Now (it does not age:    *)
(* only IsZero() is read of it).                                           *)
(***************************************************************************)
EXTENDS Integers, Sequences, FiniteSets, TLC

\* ------------------------------------------------------------ bounds
\* ages saturate here: MaxAge seconds or more since the last click
MaxAge == 4
\* largest level handed to SetFan/SetPower/FixFan/FixPower by a direct caller
MaxLevel == 10
\* largest number of increments of one direct Move call
MaxMove == 2
\* largest net number of increments a sequence of Move calls of SpecMove adds up to
MaxTotal == 6
\* the width of int32 in the Stepper specification, in bits
IntBits == 5
\* Writes of each writer to the host's pipe
MaxWrites == 2
\* largest chunk io.Copy reads from os.Stdin at once, in bytes
MaxChunk == 4
\* lines the host writes to the serial port, and requests it makes to TWChart
MaxSent == 2
\* the click attempts a GoToMode loop is followed for
MaxClicks == 4
\* the steps a control's sum is followed away from its increments
MaxDrift == 2
\* the seconds the UI's clock is followed for
MaxClock == 3

\* ------------------------------------------------------------ constants
ControlModeUnknown == 0
ControlModeFan == 1
ControlModePower == 2
ControlModeTimer == 3
\* select mode of the FreshRoast ends after 3 seconds
ClickWindow == 3
\* IncreaseTime moves the timer by 5 increments
TimeIncrements == 5
\* fixed-point denominator of the float32 values
Scale == 4
\* the zero time.Time, and time.Now() as an age
NoTime == -1
Now == 0

ControlModes == {ControlModeUnknown, ControlModeFan, ControlModePower, ControlModeTimer}
Cycle == {ControlModeFan, ControlModePower, ControlModeTimer}


\* the states of the UI
stateNone == 0
statePreheat == 1
stateRoasting == 2
stateFirstCrack == 3
stateCooling == 4
stateDone == 5

\* no increment commanded and no step sent, for either control
NoMoves == [c \in {"fan", "power"} |-> [inc |-> 0, steps |-> 0]]
VARIABLES
    d,      \* the Device: currentControlMode, fan, power, startTime, lastClick, verbose, remainder
    cfg,    \* the CalibrationConfig: StepsPerIncrement, BackstepRatio
    servo,  \* which servo.SetAngle call of a click fails: "ok", "press", "reset"
    log,    \* what the last operation did, in order: calls, clicks, stepper moves, field writes
    last,   \* the last operation: its name, its argument and the Device (State) before it
    total,  \* increments commanded and steps sent since New (kept by SpecMove only)
    st,     \* the State of the first firmware: the Device's fields, lastDirection, calibrationCfg
    dir,    \* the direction the stepper last turned in: -1, 0 (never), +1 (kept by SpecState only)
    run,    \* commands.Run's loop: the command byte read and its input so far (SpecRun only)
    stepper, \* the Stepper: stepMode and currentStep, the phase index (kept by SpecStepper only)
    pipe,   \* the host's io.Pipe with its two writers and its reader (kept by SpecPipe only)
    host,   \* the host's serialController: lines written to the port, requests to TWChart (SpecHost only)
    moved,  \* per control, the increments commanded and the steps sent in its mode (SpecControls only)
    roasterUI \* the host's RoasterUI: its state button, channels and timers (SpecUI only)

vars == <<d, cfg, servo, log, last, total, st, dir, run, stepper, pipe, host, moved, roasterUI>>

\* ------------------------------------------------------------ helpers
Abs(x) == IF x < 0 THEN -x ELSE x
Sign(x) == IF x < 0 THEN -1 ELSE IF x > 0 THEN 1 ELSE 0
Min(a, b) == IF a < b THEN a ELSE b

\* int32(math.Round(float64(x))) of the fixed-point value q/Scale: nearest integer,
\* halves away from zero
Round(q) == IF q >= 0 THEN (2 * q + Scale) \div (2 * Scale) ELSE -((2 * (-q) + Scale) \div (2 * Scale))

\* int32(a / b) for float32 a >= 0 and b > 0: the quotient cut towards zero
TruncDiv(a, b) == a \div b

\* an event of the log
Ev(kind, val) == <<kind, val>>
Emit(e, kind, val) == [e EXCEPT !.log = Append(@, Ev(kind, val))]

\* ------------------------------------------------------------ ControlMode
\* mutant: no wrap from Timer to Fan
NextNoWrap(cm) == cm + 1
Next_(cm) == IF cm = ControlModeTimer THEN ControlModeFan ELSE cm + 1


\* ------------------------------------------------------------ host: serialController
\* a line is the sequence of its characters
HasPrefix(line, prefix) ==
    Len(line) >= Len(prefix) /\ SubSeq(line, 1, Len(prefix)) = prefix
TrimPrefix(line, prefix) ==
    IF HasPrefix(line, prefix) THEN SubSeq(line, Len(prefix) + 1, Len(line)) ELSE line
RECURSIVE TrimLeft(_)
TrimLeft(line) ==
    IF line # <<>> /\ Head(line) = " " THEN TrimLeft(Tail(line)) ELSE line
RECURSIVE TrimRight(_)
TrimRight(line) ==
    IF line # <<>> /\ line[Len(line)] = " " THEN TrimRight(SubSeq(line, 1, Len(line) - 1))
    ELSE line
TrimSpace(line) == TrimRight(TrimLeft(line))

COOL == <<"C", "O", "O", "L">>
FC == <<"F", "C">>
DONE == <<"D", "O", "N", "E">>
NOTE == <<"N", "O", "T", "E">>

\* the serial port is open, nothing was written to it, TWChart has no request
NewSerialController == [port |-> <<>>, twchart |-> <<>>]

\* a call of the TWChart client: the request is recorded, or it fails (ok = FALSE)
Request(x, ok, req) ==
    IF ok THEN [x EXCEPT !.h.twchart = Append(@, req), !.log = Append(@, <<"twchart", req>>)]
    ELSE [x EXCEPT !.err = TRUE]
addEvent(x, ok, in) == Request(x, ok, <<"AddEvent", in>>)
handleStartCommand(x, ok) == Request(x, ok, <<"SetStartTime">>)
handleFinishCommand(x, ok) == Request(x, ok, <<"Finish">>)
handleCoolingStage(x, ok) == Request(x, ok, <<"AddStage", "Cooling">>)

Matched(x) == [x EXCEPT !.matched = TRUE]
\* mutant: DONE is not among the cases
handleExternalCommandsNoDone(x, ok, line) ==
    IF line = COOL THEN Matched(handleCoolingStage(x, ok))
    ELSE IF line = FC THEN Matched(addEvent(x, ok, "First Crack"))
    ELSE IF line = NOTE THEN x
    ELSE IF HasPrefix(line, NOTE)
    THEN Matched(addEvent(x, ok, TrimPrefix(line, NOTE \o <<" ">>)))
    ELSE x
\* the switch on the line; `case "NOTE":` has an empty body and Go does not
\* fall through, so the line NOTE leaves the switch unmatched
handleExternalCommands(x, ok, line) ==
    IF line = COOL THEN Matched(handleCoolingStage(x, ok))
    ELSE IF line = FC THEN Matched(addEvent(x, ok, "First Crack"))
    ELSE IF line = DONE THEN Matched(handleFinishCommand(x, ok))
    ELSE IF line = NOTE THEN x
    ELSE IF HasPrefix(line, NOTE)
    THEN Matched(addEvent(x, ok, TrimPrefix(line, NOTE \o <<" ">>)))
    ELSE x

\* port.Write(line), then the answer is read
passthroughCommand(x, in) ==
    [x EXCEPT !.h.port = Append(@, in), !.log = Append(@, <<"port.Write", in>>)]

\* one line of run's scanner loop, on x = [h, log, matched, err]
runLine(x, ok, scanned) ==
    LET line == TrimSpace(scanned)
    IN  IF line = <<>> THEN x
        ELSE LET x1 == CHOOSE r \in {handleExternalCommands(x, ok, line)} : TRUE
             IN  IF x1.err \/ x1.matched THEN x1
                 ELSE LET x2 == CHOOSE r \in
                                  {IF line[1] \in {"F", "P"} THEN addEvent(x1, ok, line)
                                   ELSE IF line[1] = "S" THEN handleStartCommand(x1, ok)
                                   ELSE x1} : TRUE
                      IN  IF x2.err THEN x2 ELSE passthroughCommand(x2, line)
\* ------------------------------------------------------------ host: UI and stdin on one pipe
\* the length of a command line of the UI, "F5\n"
LineLen == 3
\* mutant: the line is handed over byte by byte
FprintfWriteLenOne == LineLen \div LineLen
\* fmt.Fprintf formats the whole line and hands it to the writer in one Write
FprintfWriteLen == LineLen

\* io.Pipe(): nobody writes, nothing was read, not closed; the UI has written
\* `ui` bytes of its lines and io.Copy `stdin` chunks so far
NewPipe ==
    [mu |-> "none", data |-> <<>>, closed |-> FALSE, out |-> <<>>,
     ui |-> 0, stdin |-> 0, rejected |-> FALSE]

\* the i-th byte the UI writes: byte ((i - 1) % LineLen) + 1 of line ((i - 1) \div LineLen) + 1
UIByte(i) == <<"ui", ((i - 1) \div LineLen) + 1, ((i - 1) % LineLen) + 1>>
\* the n bytes of the k-th chunk io.Copy has read from os.Stdin
StdinChunk(k, n) == [i \in 1..n |-> <<"stdin", k, i>>]

\* PipeWriter.Write: one writer at a time holds the pipe until the reader has
\* taken all of its bytes; on a closed pipe the Write fails
PipeWrite(p, who, bytes) ==
    IF p.closed THEN [p EXCEPT !.rejected = @ \/ who = "ui"]
    ELSE [p EXCEPT !.mu = who, !.data = bytes]

\* PipeReader.Read into a buffer of n bytes
PipeRead(p, n) ==
    LET rest == SubSeq(p.data, n + 1, Len(p.data))
    IN  [p EXCEPT !.out = @ \o SubSeq(p.data, 1, n),
                  !.data = rest,
                  !.mu = IF rest = <<>> THEN "none" ELSE @]

\* PipeWriter.Close: a Write in progress gives up, later Writes and Reads fail
PipeClose(p) == [p EXCEPT !.closed = TRUE, !.mu = "none", !.data = <<>>]


\* ------------------------------------------------------------ host: RoasterUI
state_next(s) == IF s = stateDone THEN stateDone ELSE s + 1

\* the command the controllerWrapper writes for a state; "" for none
state_command(s) ==
    CASE s = statePreheat -> "I11\nS\nPREHEAT"
      [] s = stateRoasting -> "ROASTING"
      [] s = stateFirstCrack -> "FC"
      [] s = stateCooling -> "COOL"
      [] s = stateDone -> "DONE"
      [] OTHER -> ""

Timers == {"overallTimer", "lastEventTimer", "fcTimer"}
Channels == {"waitForStart", "waitForFC"} \cup Timers

\* the channel a timer's goroutine waits for before it ticks
WaitsFor(t) == IF t = "fcTimer" THEN "waitForFC" ELSE "waitForStart"

\* a timer: its start time, the elapsed time its text shows, and where its
\* goroutine is: waiting for its start channel, ticking, or returned
newTimer == [startTime |-> NoTime, text |-> 0, pc |-> "wait"]

\* Run up to the window's construction: state None, the button showing the
\* next state, five open channels (a timer's name stands for its stop channel)
NewRoasterUI ==
    [currentState |-> stateNone,
     buttonText |-> state_next(stateNone),
     disabled |-> FALSE,
     timer |-> [t \in Timers |-> newTimer],
     closed |-> [c \in Channels |-> FALSE],
     closes |-> [c \in Channels |-> 0],
     panicked |-> FALSE,
     presses |-> 0,
     written |-> <<>>,
     clock |-> 0]

\* close(c): a second close of a channel panics, and the handler goes no further
Close(u, c) ==
    IF u.panicked THEN u
    ELSE IF u.closed[c] THEN [u EXCEPT !.closes[c] = @ + 1, !.panicked = TRUE]
    ELSE [u EXCEPT !.closes[c] = @ + 1, !.closed[c] = TRUE]

timer_Set(u, t) == IF u.panicked THEN u ELSE [u EXCEPT !.timer[t].startTime = u.clock]
timer_Stop(u, t) == Close(u, t)

RunStateCommand(u) ==
    IF u.panicked \/ state_command(u.currentState) = "" THEN u
    ELSE [u EXCEPT !.written = Append(@, state_command(u.currentState))]


\* mutant: the last press stops every timer, the first-crack timer too
OnStateButtonStopsAll(u) ==
    LET u1 == [u EXCEPT !.currentState = @ + 1, !.presses = @ + 1]
        u2 == timer_Set(u1, "lastEventTimer")
        u3 == [u2 EXCEPT !.buttonText = state_next(u2.currentState)]
        u4 == CASE u3.currentState = stateFirstCrack ->
                       Close(timer_Set(u3, "fcTimer"), "waitForFC")
                [] u3.currentState = stateFirstCrack + 1 ->
                       timer_Stop(u3, "fcTimer")
                [] u3.currentState = statePreheat ->
                       Close(timer_Set(u3, "overallTimer"), "waitForStart")
                [] u3.currentState = stateDone ->
                       timer_Stop(timer_Stop(timer_Stop([u3 EXCEPT !.disabled = TRUE],
                                  "overallTimer"), "lastEventTimer"), "fcTimer")
                [] OTHER -> u3
    IN  RunStateCommand(u4)
\* the state button's handler
OnStateButton(u) ==
    LET u1 == [u EXCEPT !.currentState = @ + 1, !.presses = @ + 1]
        u2 == timer_Set(u1, "lastEventTimer")
        u3 == [u2 EXCEPT !.buttonText = state_next(u2.currentState)]
        u4 == CASE u3.currentState = stateFirstCrack ->
                       Close(timer_Set(u3, "fcTimer"), "waitForFC")
                [] u3.currentState = stateFirstCrack + 1 ->
                       timer_Stop(u3, "fcTimer")
                [] u3.currentState = statePreheat ->
                       Close(timer_Set(u3, "overallTimer"), "waitForStart")
                [] u3.currentState = stateDone ->
                       timer_Stop(timer_Stop([u3 EXCEPT !.disabled = TRUE], "overallTimer"),
                                  "lastEventTimer")
                [] OTHER -> u3
    IN  RunStateCommand(u4)
\* ------------------------------------------------------------ Stepper
StepModeFull == 0
StepModeHalf == 1
StepModes == {StepModeFull, StepModeHalf}

\* int32, at the width IntBits: two's complement, arithmetic wraps
MinInt32 == -(2 ^ (IntBits - 1))
MaxInt32 == 2 ^ (IntBits - 1) - 1
Int32(x) == ((x - MinInt32) % (2 ^ IntBits)) + MinInt32

NewStepper(cfg_) == [stepMode |-> cfg_.StepMode, currentStep |-> 0]

sequenceLen(s) == IF s.stepMode = StepModeHalf THEN 8 ELSE 4

\* the pins are set to the entry of the sequence at currentStep
applyStep(x) == [x EXCEPT !.log = Append(@, <<"phase", x.s.currentStep>>)]

StepForward(x) ==
    applyStep([x EXCEPT !.s.currentStep = (@ + 1) % sequenceLen(x.s)])

\* mutant: the step back goes forward
StepBackwardForward(x) == StepForward(x)
StepBackward(x) ==
    applyStep([x EXCEPT !.s.currentStep = (@ - 1 + sequenceLen(x.s)) % sequenceLen(x.s)])

\* `for range n`: n iterations, none when n <= 0
RECURSIVE ForRangeForward(_, _)
ForRangeForward(x, n) ==
    IF n <= 0 THEN x
    ELSE CHOOSE r \in {ForRangeForward(x1, n - 1) : x1 \in {StepForward(x)}} : TRUE
RECURSIVE ForRangeBackward(_, _)
ForRangeBackward(x, n) ==
    IF n <= 0 THEN x
    ELSE CHOOSE r \in {ForRangeBackward(x1, n - 1) : x1 \in {StepBackward(x)}} : TRUE

\* Stepper.Move on x = [s |-> the Stepper, log |-> the pin settings so far]
Stepper_Move(x, steps) ==
    IF steps > 0 THEN ForRangeForward(x, steps)
    ELSE ForRangeBackward(x, Int32(-steps))

\* ------------------------------------------------------------ Device
\* time.Since(t) > 3*time.Second; the zero time.Time is long ago
SinceOver(t) == t = NoTime \/ t > ClickWindow
\* `if d.verbose { println(d.ts(), name, ...) }`
Trace(e, name) == IF e.d.verbose THEN Emit(e, "println", name) ELSE e

\* mutant: the click itself counts as a step of the display's cycle
ClickButtonAdvances(e) ==
    LET e1 == Emit(e, "click", 0)
    IN  [e1 EXCEPT !.d.currentControlMode = Next_(@), !.d.lastClick = Now]



\* mutant: the click time is recorded whether or not the servo moved
ClickButtonStampsAlways(e) ==
    LET e1 == Emit(Trace(e, "ClickButton"), "click", 0)
        e2 == Emit([e1 EXCEPT !.d.lastClick = Now], "servo", 1)
    IN  IF servo = "press" THEN e2
        ELSE Emit(e2, "servo", 0)
\* mutant: a click whose press failed is tried a second time
ClickButtonRetries(e) ==
    LET e1 == Emit(Trace(e, "ClickButton"), "click", 0)
        e2 == Emit(e1, "servo", 1)
    IN  IF servo = "press" THEN Emit(Emit(e2, "click", 0), "servo", 1)
        ELSE LET e3 == Emit(e2, "servo", 0)
             IN  IF servo = "reset" THEN e3
                 ELSE [e3 EXCEPT !.d.lastClick = Now]
ClickButton(e) ==
    LET e1 == Emit(Trace(e, "ClickButton"), "click", 0)
        e2 == Emit(e1, "servo", 1)
    IN  IF servo = "press" THEN e2
        ELSE LET e3 == Emit(e2, "servo", 0)
             IN  IF servo = "reset" THEN e3
                 ELSE [e3 EXCEPT !.d.lastClick = Now]

RECURSIVE GoToModeLoop(_, _)
\* mutant: the loop ends at a click the servo did not deliver
GoToModeLoopGivesUp(e, target) ==
    IF e.d.currentControlMode = target THEN e
    ELSE LET e1 == ClickButton(e)
             cm == Next_(e1.d.currentControlMode)
             e2 == Emit([e1 EXCEPT !.d.currentControlMode = cm, !.ret = TRUE], "mode", cm)
         IN  IF servo # "ok" THEN [e1 EXCEPT !.ret = TRUE] ELSE GoToModeLoop(e2, target)
GoToModeLoop(e, target) ==
    IF e.d.currentControlMode = target THEN e
    ELSE LET e1 == ClickButton(e)
             cm == Next_(e1.d.currentControlMode)
             e2 == Emit([e1 EXCEPT !.d.currentControlMode = cm, !.ret = TRUE], "mode", cm)
         IN  GoToModeLoop(e2, target)

\* mutant: the loop tests the mode only after clicking
RECURSIVE GoToModeClickFirstLoop(_, _)
GoToModeClickFirstLoop(e, target) ==
    LET e1 == ClickButton(e)
        cm == Next_(e1.d.currentControlMode)
        e2 == Emit([e1 EXCEPT !.d.currentControlMode = cm, !.ret = TRUE], "mode", cm)
    IN  IF cm = target THEN e2 ELSE GoToModeClickFirstLoop(e2, target)
GoToModeClickFirst(e, target) ==
    LET e0 == Emit([e EXCEPT !.ret = FALSE], "GoToMode", target)
    IN  IF target = ControlModeUnknown THEN e0
        ELSE LET e1 == IF e0.d.startTime # NoTime /\ SinceOver(e0.d.lastClick)
                       THEN [ClickButton(e0) EXCEPT !.ret = TRUE]
                       ELSE e0
             IN  GoToModeClickFirstLoop(e1, target)
\* mutant: the display is first brought to Fan and only then to the target
GoToModeViaFan(e, target) ==
    LET e0 == Emit([e EXCEPT !.ret = FALSE], "GoToMode", target)
    IN  IF target = ControlModeUnknown THEN e0
        ELSE LET e1 == IF e0.d.startTime # NoTime /\ SinceOver(e0.d.lastClick)
                       THEN [ClickButton(e0) EXCEPT !.ret = TRUE]
                       ELSE e0
             IN  IF e1.d.currentControlMode = target THEN e1
                 ELSE GoToModeLoop(GoToModeLoop(e1, ControlModeFan), target)



\* mutant: the select mode is re-armed before the target is looked at
GoToModeRearmsFirst(e, target) ==
    LET e0 == Emit([Trace(e, "GoToMode") EXCEPT !.ret = FALSE], "GoToMode", target)
        e1 == IF e0.d.startTime # NoTime /\ SinceOver(e0.d.lastClick)
              THEN [ClickButton(e0) EXCEPT !.ret = TRUE]
              ELSE e0
    IN  IF target = ControlModeUnknown THEN e1
        ELSE IF e1.d.currentControlMode = target THEN e1
        ELSE GoToModeLoop(e1, target)
\* mutant: the click that re-arms the select mode is taken for a step of the cycle
GoToModeRearmAdvances(e, target) ==
    LET e0 == Emit([Trace(e, "GoToMode") EXCEPT !.ret = FALSE], "GoToMode", target)
    IN  IF target = ControlModeUnknown THEN e0
        ELSE LET e1 == IF e0.d.startTime # NoTime /\ SinceOver(e0.d.lastClick)
                       THEN [ClickButton(e0) EXCEPT !.ret = TRUE,
                                                    !.d.currentControlMode = Next_(@)]
                       ELSE e0
             IN  IF e1.d.currentControlMode = target THEN e1
                 ELSE GoToModeLoop(e1, target)
\* mutant: only the clicks of the loop are reported
GoToModeReportsLoopOnly(e, target) ==
    LET e0 == Emit([Trace(e, "GoToMode") EXCEPT !.ret = FALSE], "GoToMode", target)
    IN  IF target = ControlModeUnknown THEN e0
        ELSE LET e1 == IF e0.d.startTime # NoTime /\ SinceOver(e0.d.lastClick)
                       THEN ClickButton(e0)
                       ELSE e0
             IN  IF e1.d.currentControlMode = target THEN e1
                 ELSE GoToModeLoop(e1, target)
\* mutant: in verbose mode the call ends after its println
GoToModeVerboseOnlyPrints(e, target) ==
    LET e0 == Emit([Trace(e, "GoToMode") EXCEPT !.ret = FALSE], "GoToMode", target)
    IN  IF target = ControlModeUnknown \/ e.d.verbose THEN e0
        ELSE LET e1 == IF e0.d.startTime # NoTime /\ SinceOver(e0.d.lastClick)
                       THEN [ClickButton(e0) EXCEPT !.ret = TRUE]
                       ELSE e0
             IN  GoToModeLoop(e1, target)

GoToMode(e, target) ==
    LET e0 == Emit([Trace(e, "GoToMode") EXCEPT !.ret = FALSE], "GoToMode", target)
    IN  IF target = ControlModeUnknown THEN e0
        ELSE LET e1 == IF e0.d.startTime # NoTime /\ SinceOver(e0.d.lastClick)
                       THEN [ClickButton(e0) EXCEPT !.ret = TRUE]
                       ELSE e0
             IN  IF e1.d.currentControlMode = target THEN e1
                 ELSE GoToModeLoop(e1, target)



\* mutant: the host-side GoToMode never re-arms the select mode
Controller_GoToModeNoRearm(e, target) ==
    LET e0 == Emit([Trace(e, "GoToMode") EXCEPT !.ret = FALSE], "GoToMode", target)
    IN  IF target = ControlModeUnknown THEN e0
        ELSE IF e0.d.currentControlMode = target THEN e0
        ELSE [GoToModeLoop(e0, target) EXCEPT !.ret = TRUE]
\* GoToMode of the host-side Controller: it returns before the re-arm click
\* when the mode already is the target, and reports true after its loop
Controller_GoToMode(e, target) ==
    LET e0 == Emit([Trace(e, "GoToMode") EXCEPT !.ret = FALSE], "GoToMode", target)
    IN  IF target = ControlModeUnknown THEN e0
        ELSE IF e0.d.currentControlMode = target THEN e0
        ELSE LET e1 == IF e0.d.startTime # NoTime /\ SinceOver(e0.d.lastClick)
                       THEN ClickButton(e0)
                       ELSE e0
             IN  [GoToModeLoop(e1, target) EXCEPT !.ret = TRUE]
StepperMove(e, steps) == Emit(e, "step", steps)

\* mutant: only the new increments are rounded, the carried remainder is not
MoveRoundsEarly(e, n) ==
    LET e0 == Emit(e, "Move", n)
        rawMove == n * cfg.StepsPerIncrement + e0.d.remainder
        move == Round(n * cfg.StepsPerIncrement)
        e1 == [e0 EXCEPT !.d.remainder = rawMove - move * Scale]
    IN  StepperMove(e1, move)
\* mutant: the remainder is stored but not carried into the next move
MoveNoCarry(e, n) ==
    LET e0 == Emit(e, "Move", n)
        rawMove == n * cfg.StepsPerIncrement
        move == Round(rawMove)
        e1 == [e0 EXCEPT !.d.remainder = rawMove - move * Scale]
    IN  StepperMove(e1, move)



\* mutant: the remainder of the last move is not carried into this one
MoveForgetsRemainder(e, n) ==
    LET e0 == Emit(e, "Move", n)
        rawMove == n * cfg.StepsPerIncrement
        move == Round(rawMove)
        e1 == [e0 EXCEPT !.d.remainder = rawMove - move * Scale]
    IN  StepperMove(e1, move)
\* mutant: the steps are rounded up
MoveRoundsUp(e, n) ==
    LET e0 == Emit(e, "Move", n)
        rawMove == n * cfg.StepsPerIncrement + e0.d.remainder
        move == (rawMove + Scale - 1) \div Scale
        e1 == [e0 EXCEPT !.d.remainder = rawMove - move * Scale]
    IN  StepperMove(e1, move)
\* mutant: the first stepper move goes past its target by the backsteps
MoveOvershoots(e, n) ==
    LET e0 == Emit(e, "Move", n)
        rawMove == n * cfg.StepsPerIncrement + e0.d.remainder
        move == Round(rawMove)
        e1 == [e0 EXCEPT !.d.remainder = rawMove - move * Scale]
        numBacksteps == IF cfg.BackstepRatio > 0
                        THEN TruncDiv(cfg.StepsPerIncrement, cfg.BackstepRatio)
                        ELSE 0
        backsteps == IF move < 0 THEN numBacksteps ELSE -numBacksteps
        e2 == StepperMove(e1, move - backsteps)
    IN  IF backsteps # 0 THEN StepperMove(Emit(e2, "sleep", 200), backsteps) ELSE e2
Move(e, n) ==
    LET e0 == Emit(e, "Move", n)
        rawMove == n * cfg.StepsPerIncrement + e0.d.remainder
        move == Round(rawMove)
        e1 == [e0 EXCEPT !.d.remainder = rawMove - move * Scale]
        numBacksteps == IF cfg.BackstepRatio > 0
                        THEN TruncDiv(cfg.StepsPerIncrement, cfg.BackstepRatio)
                        ELSE 0
        backsteps == IF cfg.BackstepRatio > 0
                     THEN (IF move < 0 THEN numBacksteps ELSE -numBacksteps)
                     ELSE 0
        e2 == StepperMove(e1, move)
    IN  IF backsteps # 0 THEN StepperMove(Emit(e2, "sleep", 200), backsteps) ELSE e2

\* mutant: the move is made in whatever mode the display is in
MoveFanNoMode(e, i) == Move(e, i)
\* mutant: the nudge is counted into the stored level
MoveFanStores(e, i) ==
    LET e1 == Move(GoToMode(e, ControlModeFan), i)
    IN  [e1 EXCEPT !.d.fan = @ + i]

MoveFan(e, i) ==
    LET e1 == GoToMode(Trace(e, "MoveFan"), ControlModeFan)
        e2 == IF e1.ret THEN Emit(e1, "sleep", 200) ELSE e1
    IN  Move(e2, i)

MovePower(e, i) ==
    LET e1 == GoToMode(Trace(e, "MovePower"), ControlModePower)
        e2 == IF e1.ret THEN Emit(e1, "sleep", 200) ELSE e1
    IN  Move(e2, i)

MoveTimer(e, i) == Move(GoToMode(Trace(e, "MoveTimer"), ControlModeTimer), i)

\* mutant: the mode is reached by clicking
FixControlModeClicks(e, cm) == GoToMode(e, cm)
FixControlMode(e, cm) == [e EXCEPT !.d.currentControlMode = cm]
FixPower(e, p) == [e EXCEPT !.d.power = p]
FixFan(e, f) == [e EXCEPT !.d.fan = f]

\* mutant: the level is stored before the delta is taken (State.SetFan of the first firmware)
SetFanEarly(e, f) ==
    IF f < 1 \/ f > 9 THEN e
    ELSE LET e0 == Emit([e EXCEPT !.d.fan = f], "fan", f)
         IN  MoveFan(e0, f - e0.d.fan)
\* mutant: only the upper end of the range is tested
SetFanNoLow(e, f) ==
    IF f > 9 THEN e
    ELSE LET delta0 == f - e.d.fan
             delta1 == IF f = 9 THEN delta0 + 3 ELSE delta0
             delta == IF f = 1 THEN delta1 - 3 ELSE delta1
             e1 == MoveFan(e, delta)
         IN  Emit([e1 EXCEPT !.d.fan = f], "fan", f)

\* mutant: the level is stored before the fan is moved
SetFanStoresFirst(e, f) ==
    IF f < 1 \/ f > 9 THEN Trace(e, "SetFan")
    ELSE LET delta0 == f - e.d.fan
             delta1 == IF f = 9 THEN delta0 + 3 ELSE delta0
             delta == IF f = 1 THEN delta1 - 3 ELSE delta1
             e1 == Emit([Trace(e, "SetFan") EXCEPT !.d.fan = f], "fan", f)
         IN  MoveFan(e1, delta)
SetFan(e, f) ==
    IF f < 1 \/ f > 9 THEN Trace(e, "SetFan")
    ELSE LET delta0 == f - e.d.fan
             delta1 == IF f = 9 THEN delta0 + 3 ELSE delta0
             delta == IF f = 1 THEN delta1 - 3 ELSE delta1
             e1 == MoveFan(Trace(e, "SetFan"), delta)
         IN  Emit([e1 EXCEPT !.d.fan = f], "fan", f)

SetPower(e, p) ==
    IF p < 1 \/ p > 9 THEN Trace(e, "SetPower")
    ELSE LET delta0 == p - e.d.power
             delta1 == IF p = 9 THEN delta0 + 3 ELSE delta0
             delta == IF p = 1 THEN delta1 - 3 ELSE delta1
             e1 == MovePower(Trace(e, "SetPower"), delta)
         IN  Emit([e1 EXCEPT !.d.power = p], "power", p)

IncreaseTime(e) == Move(GoToMode(Trace(e, "IncreaseTime"), ControlModeTimer), TimeIncrements)

\* mutant: both levels must be unset for the error
StartAnd(e) ==
    IF e.d.fan = 0 /\ e.d.power = 0 THEN [e EXCEPT !.err = TRUE]
    ELSE [e EXCEPT !.d.startTime = Now]
\* mutant: a refused Start forgets an earlier one
StartClearsOnError(e) ==
    IF e.d.fan = 0 \/ e.d.power = 0 THEN [e EXCEPT !.err = TRUE, !.d.startTime = NoTime]
    ELSE [e EXCEPT !.d.startTime = Now]
Start(e) ==
    IF e.d.fan = 0 \/ e.d.power = 0 THEN [e EXCEPT !.err = TRUE]
    ELSE [e EXCEPT !.d.startTime = Now]

Verbose(e) == [e EXCEPT !.d.verbose = TRUE]

\* the timestamp of a printed line: "[-]" until started, then the duration
ts(dev) == IF dev.startTime = NoTime THEN "[-]" ELSE "[Duration]"
\* the byte levelStr puts after its character
levelStr(level) == (level + 48) % 256
ControlModeString(cm) ==
    CASE cm = ControlModeFan -> "Fan"
      [] cm = ControlModePower -> "Power"
      [] cm = ControlModeTimer -> "Timer"
      [] OTHER -> "Unknown"
\* the line Debug prints: timestamp, F<fan>/P<power>, mode=<mode>
Debug(e) ==
    Emit(e, "Debug", <<ts(e.d), levelStr(e.d.fan), levelStr(e.d.power),
                       ControlModeString(e.d.currentControlMode)>>)

MicroStep(e, n) == StepperMove(e, n)
\* the pair Settings returns, as an event of the log
Settings(e) == Emit(e, "Settings", <<e.d.fan, e.d.power>>)

\* ------------------------------------------------------------ commands
\* the bytes of the command language, and some that are not
B == [F |-> 70, P |-> 80, M |-> 77, C |-> 67, S |-> 83, D |-> 68, V |-> 86, T |-> 84,
      f |-> 102, p |-> 112, Z |-> 90, s |-> 115, R |-> 82, I |-> 73, Esc |-> 27, H |-> 72,
      plus |-> 43, minus |-> 45, bracket |-> 91, d0 |-> 48, d1 |-> 49, d2 |-> 50,
      d5 |-> 53, d6 |-> 54, d9 |-> 57, slash |-> 47, colon |-> 58, space |-> 32]

\* mutant: the digit's value is not range-checked
b2iUnchecked(b) == (b - B.d0) % 256
\* byte arithmetic wraps; anything but '1'..'9' is 0
b2i(b) ==
    LET v == (b - B.d0) % 256
    IN  IF v < 1 \/ v > 9 THEN 0 ELSE v

Flags == {B.F, B.P, B.M, B.C, B.S, B.D, B.V, B.T, B.f, B.p, B.Z, B.s, B.R, B.I, B.Esc, B.H}

InputSize(flag) ==
    IF flag \in {B.F, B.P, B.M, B.f, B.p, B.Z} THEN 1
    ELSE IF flag \in {B.s, B.I, B.Esc} THEN 2
    ELSE 0

Failed(e) == [e EXCEPT !.err = TRUE]

SetFanCommand(e, in) ==
    IF in[1] = B.minus THEN MoveFan(e, -1)
    ELSE IF in[1] = B.plus THEN MoveFan(e, 1)
    ELSE LET f == b2i(in[1])
         IN  IF f <= 0 \/ f > 9 THEN Failed(e) ELSE SetFan(e, f)

SetPowerCommand(e, in) ==
    IF in[1] = B.minus THEN MovePower(e, -1)
    ELSE IF in[1] = B.plus THEN MovePower(e, 1)
    ELSE LET p == b2i(in[1])
         IN  IF p <= 0 \/ p > 9 THEN Failed(e) ELSE SetPower(e, p)

SetModeCommand(e, in) ==
    LET mode == IF in[1] = B.F THEN ControlModeFan
                ELSE IF in[1] = B.P THEN ControlModePower
                ELSE IF in[1] = B.T THEN ControlModeTimer
                ELSE ControlModeUnknown
    IN  GoToMode(e, mode)
\* mutant: the level is fixed and the previous target is not restored
FixFanCommandNoRestore(e, in) == FixFan(e, b2i(in[1]))

FixFanCommand(e, in) ==
    LET v == b2i(in[1])
        target == e.d.fan
    IN  SetFan(FixFan(e, v), target)

FixPowerCommand(e, in) ==
    LET v == b2i(in[1])
        target == e.d.power
    IN  SetPower(FixPower(e, v), target)

\* one function of the test routine, <<"F" or "P", level, delay after it>>
TestFunc(e, fn) ==
    LET e1 == IF fn[1] = "F" THEN SetFan(e, fn[2]) ELSE SetPower(e, fn[2])
    IN  IF fn[3] > 0 THEN Emit(e1, "sleep", fn[3]) ELSE e1

\* the functions one after the other (e1 is bound to the value of the call before)
RECURSIVE TestFuncs(_, _)
TestFuncs(e, funcs) ==
    IF funcs = <<>> THEN e
    ELSE CHOOSE r \in {TestFuncs(e1, Tail(funcs)) : e1 \in {TestFunc(e, Head(funcs))}} : TRUE

TestCommand(e, in) ==
    LET funcs(delay) == << <<"F", 5, delay>>, <<"P", 5, delay>>, <<"F", 9, delay>>,
                           <<"F", 8, delay>>, <<"P", 9, delay>>, <<"P", 8, delay>> >>
        fans == [i \in 1..20 |-> IF i % 2 = 1 THEN <<"F", 5, 0>> ELSE <<"F", 4, 0>>]
    IN  IF in[1] = B.d1
        THEN TestFuncs(e, funcs(500) \o << <<"F", 1, 0>>, <<"P", 1, 0>> >> \o funcs(0))
        ELSE IF in[1] = B.d2 THEN TestFuncs(e, fans)
        ELSE e

StepCommand(e, in) ==
    IF in[1] # B.minus /\ in[1] # B.plus THEN Failed(e)
    ELSE LET s == IF in[1] = B.minus THEN -1 ELSE 1
         IN  Move(e, b2i(in[2]) * s)

InitCommand(e, in) == FixPower(FixFan(e, b2i(in[1])), b2i(in[2]))

MicroStepCommand(e, in) ==
    IF in[1] # B.bracket THEN Failed(e)
    ELSE IF in[2] = B.D THEN MicroStep(e, 5)
    ELSE IF in[2] = B.C THEN MicroStep(e, -5)
    ELSE e

\* cmd.Run of the command with this flag
RunCommand(e, flag, in) ==
    CASE flag = B.F -> SetFanCommand(e, in)
      [] flag = B.P -> SetPowerCommand(e, in)
      [] flag = B.M -> SetModeCommand(e, in)
      [] flag = B.C -> ClickButton(e)
      [] flag = B.S -> Start(e)
      [] flag = B.D -> Debug(e)
      [] flag = B.V -> Verbose(e)
      [] flag = B.T -> IncreaseTime(e)
      [] flag = B.f -> FixFanCommand(e, in)
      [] flag = B.p -> FixPowerCommand(e, in)
      [] flag = B.Z -> TestCommand(e, in)
      [] flag = B.s -> StepCommand(e, in)
      [] flag = B.R -> MicroStep(e, 4096)
      [] flag = B.I -> InitCommand(e, in)
      [] flag = B.Esc -> MicroStepCommand(e, in)
      [] OTHER -> e

\* ------------------------------------------------------------ State (first firmware)
\* the calibration of the first firmware's main: whole steps
StateConfig == [StepsPerIncrement |-> 28, BacklashSteps |-> 2]

NewState(calibrationCfg) ==
    [calibrationCfg |-> calibrationCfg, currentControlMode |-> ControlModeFan,
     fan |-> 0, power |-> 0, startTime |-> NoTime, lastClick |-> NoTime,
     lastDirection |-> 0, verbose |-> FALSE]

StateStart(e) ==
    IF e.d.fan = 0 \/ e.d.power = 0 THEN [e EXCEPT !.err = TRUE]
    ELSE [e EXCEPT !.d.startTime = Now]

StateClickButton(e) ==
    LET e1 == Emit(e, "click", 0)
        e2 == Emit(e1, "servo", 1)
    IN  IF servo = "press" THEN e2
        ELSE LET e3 == Emit(e2, "servo", 0)
             IN  IF servo = "reset" THEN e3
                 ELSE LET cm == Next_(e3.d.currentControlMode)
                      IN  Emit([e3 EXCEPT !.d.currentControlMode = cm], "mode", cm)

RECURSIVE StateGoToModeLoop(_, _)
StateGoToModeLoop(e, target) ==
    IF e.d.currentControlMode = target THEN e
    ELSE StateGoToModeLoop(StateClickButton(e), target)

StateGoToMode(e, target) ==
    LET e0 == Emit(e, "GoToMode", target)
    IN  IF target = ControlModeUnknown THEN e0 ELSE StateGoToModeLoop(e0, target)

StateFixControlMode(e, cm) == [e EXCEPT !.d.currentControlMode = cm]

\* mutant: the backlash steps are added to every move, whatever the last direction
StateMoveAlwaysBacklash(e, n) ==
    LET e0 == Emit(e, "Move", n)
        move0 == n * e0.d.calibrationCfg.StepsPerIncrement
        backlash == e0.d.calibrationCfg.BacklashSteps
    IN  IF move0 > 0 THEN StepperMove([e0 EXCEPT !.d.lastDirection = 1], move0 + backlash)
        ELSE IF move0 < 0 THEN StepperMove([e0 EXCEPT !.d.lastDirection = -1], move0 - backlash)
        ELSE StepperMove(e0, move0)

\* mutant: every move that turns the stepper records its direction
StateMoveTracksDirection(e, n) ==
    LET e0 == Emit(e, "Move", n)
        move0 == n * e0.d.calibrationCfg.StepsPerIncrement
        backlash == e0.d.calibrationCfg.BacklashSteps
    IN  IF move0 > 0
        THEN StepperMove([e0 EXCEPT !.d.lastDirection = 1],
                         IF e0.d.lastDirection < 0 THEN move0 + backlash ELSE move0)
        ELSE IF move0 < 0
        THEN StepperMove([e0 EXCEPT !.d.lastDirection = -1],
                         IF e0.d.lastDirection > 0 THEN move0 - backlash ELSE move0)
        ELSE StepperMove(e0, move0)
StateMove(e, n) ==
    LET e0 == Emit(e, "Move", n)
        move0 == n * e0.d.calibrationCfg.StepsPerIncrement
        backlash == e0.d.calibrationCfg.BacklashSteps
    IN  IF e0.d.lastDirection < 0 /\ move0 > 0
        THEN StepperMove([e0 EXCEPT !.d.lastDirection = 1], move0 + backlash)
        ELSE IF e0.d.lastDirection > 0 /\ move0 < 0
        THEN StepperMove([e0 EXCEPT !.d.lastDirection = -1], move0 - backlash)
        ELSE StepperMove(e0, move0)

StateMoveFan(e, i) == StateMove(StateGoToMode(e, ControlModeFan), i)
StateMovePower(e, i) == StateMove(StateGoToMode(e, ControlModePower), i)
StateMoveTimer(e, i) == StateMove(StateGoToMode(e, ControlModeTimer), i)

StateFixPower(e, p) == [e EXCEPT !.d.power = p]
StateFixFan(e, f) == [e EXCEPT !.d.fan = f]

\* the level is stored first, so the delta taken from it afterwards is 0
StateSetFan(e, f) ==
    IF f < 1 \/ f > 9 THEN e
    ELSE LET e1 == Emit([e EXCEPT !.d.fan = f], "fan", f)
         IN  IF e1.d.startTime # NoTime THEN StateMoveFan(e1, f - e1.d.fan) ELSE e1

StateSetPower(e, p) ==
    IF p < 1 \/ p > 9 THEN e
    ELSE LET e1 == Emit([e EXCEPT !.d.power = p], "power", p)
         IN  IF e1.d.startTime # NoTime THEN StateMovePower(e1, p - e1.d.power) ELSE e1

\* ------------------------------------------------------------ specification
\* 4 steps per increment, no compensation
Configs == { [StepsPerIncrement |-> 4 * Scale, BackstepRatio |-> 0] }

New ==
    [currentControlMode |-> ControlModeFan, fan |-> 0, power |-> 0,
     startTime |-> NoTime, lastClick |-> NoTime, verbose |-> FALSE, remainder |-> 0]

\* no call is in progress: the caller has taken the result of the last one
\* commands.Run between two commands
Idle == [cmdIn |-> -1, in |-> <<>>]

NoCall(dev) == [op |-> "none", arg |-> 0, pre |-> dev, ret |-> FALSE, err |-> FALSE, dir |-> 0, after |-> FALSE]

Init ==
    /\ d = New
    /\ st = NewState(StateConfig)
    /\ dir = 0
    /\ run = Idle
    /\ stepper = NewStepper([StepMode |-> StepModeHalf])
    /\ pipe = NewPipe
    /\ host = NewSerialController
    /\ moved = NoMoves
    /\ roasterUI = NewRoasterUI
    /\ cfg \in Configs
    /\ servo = "ok"
    /\ log = <<>>
    /\ last = NoCall(New)
    /\ total = [inc |-> 0, steps |-> 0]

\* the environment of one call: the Device, an empty log, no result yet
Env == [d |-> d, log |-> <<>>, ret |-> FALSE, err |-> FALSE]

\* A call of a Device method by the (single) caller: the method runs to its end on
\* the Device; log and last record what it did until the caller takes the result.
Call(name, arg, e) ==
    /\ last.op = "none"
    /\ \E r \in {e} :
          /\ d' = r.d
          /\ log' = r.log
          /\ last' = [op |-> name, arg |-> arg, pre |-> d, ret |-> r.ret, err |-> r.err, dir |-> 0, after |-> FALSE]
    /\ UNCHANGED <<cfg, servo, total, st, dir, run, stepper, pipe, host, moved, roasterUI>>

\* the caller takes the result and is ready for its next call
Return ==
    /\ last.op # "none"
    /\ last' = NoCall(d)
    /\ log' = <<>>
    /\ UNCHANGED <<cfg, servo, total, d, st, dir, run, stepper, pipe, host, moved, roasterUI>>

Levels == 0..MaxLevel
Increments == -MaxMove..MaxMove

DoSetFan == \E f \in Levels : Call("SetFan", f, SetFan(Env, f))
DoSetPower == \E p \in Levels : Call("SetPower", p, SetPower(Env, p))
DoMoveFan == \E i \in Increments : Call("MoveFan", i, MoveFan(Env, i))
DoMovePower == \E i \in Increments : Call("MovePower", i, MovePower(Env, i))
DoMoveTimer == \E i \in Increments : Call("MoveTimer", i, MoveTimer(Env, i))
DoMove == \E n \in -MaxMove..MaxMove : Call("Move", n, Move(Env, n))
DoGoToMode == \E t \in ControlModes : Call("GoToMode", t, GoToMode(Env, t))
DoControllerGoToMode ==
    \E t \in ControlModes : Call("Controller.GoToMode", t, Controller_GoToMode(Env, t))
\* the command M with its one byte of input: a mode letter, or another byte
SetModeInputs == {<<B.F>>, <<B.P>>, <<B.T>>, <<B.D>>, <<B.d1>>}
DoSetModeCommand ==
    \E in \in SetModeInputs : Call("SetModeCommand", in, SetModeCommand(Env, in))
DoFixControlMode == \E cm \in ControlModes : Call("FixControlMode", cm, FixControlMode(Env, cm))
DoFixFan == \E f \in 0..9 : Call("FixFan", f, FixFan(Env, f))
DoFixPower == \E p \in 0..9 : Call("FixPower", p, FixPower(Env, p))
DoClickButton == Call("ClickButton", 0, ClickButton(Env))
DoIncreaseTime == Call("IncreaseTime", 0, IncreaseTime(Env))
DoStart == Call("Start", 0, Start(Env))
DoVerbose == Call("Verbose", 0, Verbose(Env))
DoMicroStep == \E n \in {-5, 5} : Call("MicroStep", n, MicroStep(Env, n))
DoDebug == Call("Debug", 0, Debug(Env))
DoSettings == Call("Settings", 0, Settings(Env))

\* a second passes
Tick ==
    /\ last.op = "none"
    /\ d.lastClick # NoTime
    /\ d.lastClick < MaxAge
    /\ d' = [d EXCEPT !.lastClick = @ + 1]
    /\ last' = NoCall(d')
    /\ UNCHANGED <<cfg, servo, log, total, st, dir, run, stepper, pipe, host, moved, roasterUI>>

Next ==
    \/ DoSetFan
    \/ DoSetPower
    \/ DoMoveFan
    \/ DoMovePower
    \/ DoMoveTimer
    \/ DoMove
    \/ DoGoToMode
    \/ DoControllerGoToMode
    \/ DoSetModeCommand
    \/ DoFixControlMode
    \/ DoFixFan
    \/ DoFixPower
    \/ DoClickButton
    \/ DoIncreaseTime
    \/ DoStart
    \/ DoVerbose
    \/ DoMicroStep
    \/ DoDebug
    \/ DoSettings
    \/ Return
    \/ Tick

Spec == Init /\ [][Next]_vars
\* ------------------------------------------------------------ calibration
\* fractional steps per increment (2.5 and 1.25), without and with backsteps
\* (BackstepRatio 2, as the firmware sets it)
CalConfigs ==
    { [StepsPerIncrement |-> (5 * Scale) \div 2, BackstepRatio |-> 0],
      [StepsPerIncrement |-> (5 * Scale) \div 4, BackstepRatio |-> 0],
      [StepsPerIncrement |-> (5 * Scale) \div 2, BackstepRatio |-> 2 * Scale],
      [StepsPerIncrement |-> (5 * Scale) \div 4, BackstepRatio |-> 2 * Scale] }

InitCal ==
    /\ d = New
    /\ st = NewState(StateConfig)
    /\ dir = 0
    /\ run = Idle
    /\ stepper = NewStepper([StepMode |-> StepModeHalf])
    /\ pipe = NewPipe
    /\ host = NewSerialController
    /\ moved = NoMoves
    /\ roasterUI = NewRoasterUI
    /\ cfg \in CalConfigs
    /\ servo = "ok"
    /\ log = <<>>
    /\ last = NoCall(New)
    /\ total = [inc |-> 0, steps |-> 0]

NextCal ==
    \/ DoMove
    \/ DoMoveFan
    \/ DoMovePower
    \/ DoSetFan
    \/ DoSetPower
    \/ DoIncreaseTime
    \/ Return

\* the operations that turn the stepper, under fractional calibrations
SpecCal == InitCal /\ [][NextCal]_vars

\* the sum of the values of the events of a kind
RECURSIVE SumOf(_, _)
SumOf(l, kind) ==
    IF l = <<>> THEN 0
    ELSE (IF Head(l)[1] = kind THEN Head(l)[2] ELSE 0) + SumOf(Tail(l), kind)

InitMove ==
    /\ d = New
    /\ st = NewState(StateConfig)
    /\ dir = 0
    /\ run = Idle
    /\ stepper = NewStepper([StepMode |-> StepModeHalf])
    /\ pipe = NewPipe
    /\ host = NewSerialController
    /\ moved = NoMoves
    /\ roasterUI = NewRoasterUI
    /\ cfg \in Configs \cup {c \in CalConfigs : c.BackstepRatio = 0}
    /\ servo = "ok"
    /\ log = <<>>
    /\ last = NoCall(New)
    /\ total = [inc |-> 0, steps |-> 0]

\* Device.Move(n), its increments and steps added to the totals
DoMoveSum ==
    \E n \in -MaxMove..MaxMove :
        LET e == Move(Env, n)
        IN  /\ last.op = "none"
            /\ Abs(total.inc + n) <= MaxTotal
            /\ d' = e.d
            /\ log' = e.log
            /\ last' = [op |-> "Move", arg |-> n, pre |-> d, ret |-> e.ret, err |-> e.err, dir |-> 0, after |-> FALSE]
            /\ total' = [inc |-> total.inc + n, steps |-> total.steps + SumOf(e.log, "step")]
            /\ UNCHANGED <<cfg, servo, st, dir, run, stepper, pipe, host, moved, roasterUI>>

NextMove ==
    \/ DoMoveSum
    \/ Return

\* sequences of Device.Move calls on a new Device without compensation
SpecMove == InitMove /\ [][NextMove]_vars


\* ------------------------------------------------------------ fan and power interleaved
InitControls ==
    /\ d = New
    /\ st = NewState(StateConfig)
    /\ dir = 0
    /\ run = Idle
    /\ stepper = NewStepper([StepMode |-> StepModeHalf])
    /\ pipe = NewPipe
    /\ host = NewSerialController
    /\ moved = NoMoves
    /\ roasterUI = NewRoasterUI
    /\ cfg \in {c \in CalConfigs : c.BackstepRatio = 0}
    /\ servo = "ok"
    /\ log = <<>>
    /\ last = NoCall(New)
    /\ total = [inc |-> 0, steps |-> 0]

\* a call that moves one control, its increments and steps added to the control's sums
MoveSum(name, control, i, e) ==
    /\ last.op = "none"
    /\ Abs(moved[control].inc + i) <= MaxTotal
    /\ \E r \in {e} :
          /\ Abs((moved[control].steps + SumOf(r.log, "step")) * Scale
                 - (moved[control].inc + i) * cfg.StepsPerIncrement) <= MaxDrift * Scale
          /\ d' = r.d
          /\ log' = r.log
          /\ last' = [op |-> name, arg |-> i, pre |-> d, ret |-> r.ret, err |-> r.err,
                      dir |-> 0, after |-> FALSE]
          /\ moved' = [moved EXCEPT ![control] = [inc |-> @.inc + i,
                                                  steps |-> @.steps + SumOf(r.log, "step")]]
    /\ UNCHANGED <<cfg, servo, total, st, dir, run, stepper, pipe, host, roasterUI>>

DoMoveFanSum == \E i \in -MaxMove..MaxMove : MoveSum("MoveFan", "fan", i, MoveFan(Env, i))
DoMovePowerSum == \E i \in -MaxMove..MaxMove : MoveSum("MovePower", "power", i, MovePower(Env, i))

NextControls ==
    \/ DoMoveFanSum
    \/ DoMovePowerSum
    \/ Return

\* MoveFan and MovePower calls in any order, under fractional calibrations
SpecControls == InitControls /\ [][NextControls]_vars
\* ------------------------------------------------------------ reading the log
Idx(l, kind) == {i \in 1..Len(l) : l[i][1] = kind}
Count(l, kind) == Cardinality(Idx(l, kind))
\* the value of the only event of the kind
The(l, kind) == l[CHOOSE i \in Idx(l, kind) : TRUE][2]
\* every event of kind k1 comes before every event of kind k2
Before(l, k1, k2) == \A i \in Idx(l, k1), j \in Idx(l, k2) : i < j
\* the k-th event of the kind
Nth(l, kind, k) == CHOOSE i \in Idx(l, kind) : Cardinality({j \in Idx(l, kind) : j <= i}) = k

\* ------------------------------------------------------------ State specification
InitState ==
    /\ d = New
    /\ st = NewState(StateConfig)
    /\ dir = 0
    /\ run = Idle
    /\ stepper = NewStepper([StepMode |-> StepModeHalf])
    /\ pipe = NewPipe
    /\ host = NewSerialController
    /\ moved = NoMoves
    /\ roasterUI = NewRoasterUI
    /\ cfg \in Configs
    /\ servo = "ok"
    /\ log = <<>>
    /\ last = NoCall(NewState(StateConfig))
    /\ total = [inc |-> 0, steps |-> 0]

StateEnv == [d |-> st, log |-> <<>>, ret |-> FALSE, err |-> FALSE]

\* the direction of the last stepper move of a log that turned the stepper, else was
LastDir(l, was) ==
    LET turns == {i \in Idx(l, "step") : l[i][2] # 0}
    IN  IF turns = {} THEN was
        ELSE Sign(l[CHOOSE i \in turns : \A j \in turns : j <= i][2])

\* a call of a State method by the (single) caller
StateCall(name, arg, e) ==
    /\ last.op = "none"
    /\ \E r \in {e} :
          /\ st' = r.d
          /\ log' = r.log
          /\ last' = [op |-> name, arg |-> arg, pre |-> st, ret |-> r.ret, err |-> r.err, dir |-> dir, after |-> FALSE]
          /\ dir' = LastDir(r.log, dir)
    /\ UNCHANGED <<d, cfg, servo, total, run, stepper, pipe, host, moved, roasterUI>>

StateReturn ==
    /\ last.op # "none"
    /\ last' = NoCall(st)
    /\ log' = <<>>
    /\ UNCHANGED <<d, cfg, servo, total, st, dir, run, stepper, pipe, host, moved, roasterUI>>

DoStateMoveFan == \E i \in -MaxMove..MaxMove : StateCall("MoveFan", i, StateMoveFan(StateEnv, i))
DoStateMovePower == \E i \in -MaxMove..MaxMove : StateCall("MovePower", i, StateMovePower(StateEnv, i))
DoStateMoveTimer == \E i \in -MaxMove..MaxMove : StateCall("MoveTimer", i, StateMoveTimer(StateEnv, i))
DoStateSetFan == \E f \in Levels : StateCall("SetFan", f, StateSetFan(StateEnv, f))
DoStateSetPower == \E p \in Levels : StateCall("SetPower", p, StateSetPower(StateEnv, p))
DoStateFixFan == \E f \in 0..9 : StateCall("FixFan", f, StateFixFan(StateEnv, f))
DoStateFixPower == \E p \in 0..9 : StateCall("FixPower", p, StateFixPower(StateEnv, p))
DoStateFixControlMode == \E cm \in ControlModes : StateCall("FixControlMode", cm, StateFixControlMode(StateEnv, cm))
DoStateGoToMode == \E t \in ControlModes : StateCall("GoToMode", t, StateGoToMode(StateEnv, t))
DoStateClickButton == StateCall("ClickButton", 0, StateClickButton(StateEnv))
DoStateStart == StateCall("Start", 0, StateStart(StateEnv))

NextState ==
    \/ DoStateMoveFan
    \/ DoStateMovePower
    \/ DoStateMoveTimer
    \/ DoStateSetFan
    \/ DoStateSetPower
    \/ DoStateFixFan
    \/ DoStateFixPower
    \/ DoStateFixControlMode
    \/ DoStateGoToMode
    \/ DoStateClickButton
    \/ DoStateStart
    \/ StateReturn

\* the State type of the first firmware, with direction-reversal backlash
SpecState == InitState /\ [][NextState]_vars

\* ------------------------------------------------------------ commands.Run
\* the bytes the serial line delivers: all of B but 'V', which only turns printing on
Bytes == {B[k] : k \in DOMAIN B \ {"V"}}
\* the bytes it delivers while a command waits for its input
ArgBytes == {B.F, B.T, B.D, B.plus, B.minus, B.bracket,
             B.d0, B.d1, B.d5, B.d6, B.d9, B.slash, B.colon}

InitRun ==
    /\ d = New
    /\ st = NewState(StateConfig)
    /\ dir = 0
    /\ run = Idle
    /\ stepper = NewStepper([StepMode |-> StepModeHalf])
    /\ pipe = NewPipe
    /\ host = NewSerialController
    /\ moved = NoMoves
    /\ roasterUI = NewRoasterUI
    /\ cfg \in Configs
    /\ servo = "ok"
    /\ log = <<>>
    /\ last = NoCall(New)
    /\ total = [inc |-> 0, steps |-> 0]

\* cmd.Run(c, in) on the Device. The log opens with the flag and the input Run is
\* given; last keeps the bytes the line delivered for this command.
Execute(flag, in, delivered) ==
    \E e \in {RunCommand(Emit(Env, "Run", <<flag>> \o in), flag, in)} :
        /\ d' = e.d
        /\ log' = e.log
        /\ last' = [op |-> "Run", arg |-> delivered, pre |-> d, ret |-> e.ret, err |-> e.err,
                    dir |-> 0, after |-> last.after]
        /\ run' = Idle

\* mutant: the failed read takes a place in the input
OnReadErrorStores(r) == IF r = Idle THEN r ELSE [r EXCEPT !.in = Append(@, 0)]
\* a failed ReadByte: `continue`, with nothing stored and nothing counted
OnReadError(r) == r

\* ReadByte fails: the loop tries again
ReadByteError ==
    /\ run' = OnReadError(run)
    /\ UNCHANGED <<d, cfg, servo, log, last, total, st, dir, stepper, pipe, host, moved, roasterUI>>

\* mutant: a byte that is no flag is taken for a click
SkipClicks(e) == ClickButton(e)
\* a byte that is no flag: `continue`
Skip(e) == e

\* the loop reads a command byte; a command without input runs at once
ReadCommand ==
    /\ run = Idle
    /\ last.op = "none"
    /\ \E cmdIn \in Bytes :
          IF cmdIn \notin Flags
          THEN LET e == Skip(Env)
               IN  /\ d' = e.d
                   /\ log' = e.log
                   /\ last' = [last EXCEPT !.op = "Skip", !.arg = <<cmdIn>>]
                   /\ UNCHANGED run
          ELSE IF InputSize(cmdIn) = 0
          THEN Execute(cmdIn, <<>>, <<cmdIn>>)
          ELSE /\ run' = [cmdIn |-> cmdIn, in |-> <<>>]
               /\ last' = [last EXCEPT !.op = "Read", !.arg = <<cmdIn>>]
               /\ UNCHANGED <<d, log>>
    /\ UNCHANGED <<cfg, servo, total, st, dir, stepper, pipe, host, moved, roasterUI>>

\* the loop reads a byte of input; the command runs when its input is complete
ReadInput ==
    /\ run # Idle
    /\ \E b \in ArgBytes :
          LET in == Append(run.in, b)
              delivered == Append(last.arg, b)
          IN  IF Len(in) = InputSize(run.cmdIn)
              THEN Execute(run.cmdIn, in, delivered)
              ELSE /\ run' = [run EXCEPT !.in = in]
                   /\ last' = [last EXCEPT !.arg = delivered]
                   /\ UNCHANGED <<d, log>>
    /\ UNCHANGED <<cfg, servo, total, st, dir, stepper, pipe, host, moved, roasterUI>>

\* the observer has seen what the last command byte did, and remembers whether
\* the byte was skipped or the command failed
RunReturn ==
    /\ last.op \in {"Run", "Skip"}
    /\ last' = [NoCall(d) EXCEPT !.after = (last.op = "Skip" \/ last.err)]
    /\ log' = <<>>
    /\ UNCHANGED <<cfg, servo, total, d, st, dir, run, stepper, pipe, host, moved, roasterUI>>

\* no byte arrives until the last click is older than the display's window
RunTick ==
    /\ run = Idle
    /\ last.op = "none"
    /\ d.lastClick # NoTime
    /\ d.lastClick < MaxAge
    /\ d' = [d EXCEPT !.lastClick = MaxAge]
    /\ last' = [NoCall(d') EXCEPT !.after = last.after]
    /\ UNCHANGED <<cfg, servo, log, total, st, dir, run, stepper, pipe, host, moved, roasterUI>>

NextRun ==
    \/ ReadByteError
    \/ ReadCommand
    \/ ReadInput
    \/ RunReturn
    \/ RunTick

\* the Device driven by commands.Run from a byte stream
SpecRun == InitRun /\ [][NextRun]_vars
\* ------------------------------------------------------------ servo faults
ServoStates == {"ok", "press", "reset"}

\* the servo driver starts or stops failing, at SetAngle to the click position
\* ("press") or back to the base position ("reset")
ServoFault ==
    /\ last.op = "none"
    /\ servo' \in ServoStates \ {servo}
    /\ UNCHANGED <<d, cfg, log, last, total, st, dir, run, stepper, pipe, host, moved, roasterUI>>

NextServo ==
    \/ ServoFault
    \/ DoClickButton
    \/ DoGoToMode
    \/ DoSetFan
    \/ DoSetPower
    \/ DoStart
    \/ Return
    \/ Tick

\* the Device methods that click, with a servo that can fail
SpecServo == Init /\ [][NextServo]_vars

\* ------------------------------------------------------------ GoToMode with a failing servo
\* State.GoToMode taken one iteration of its loop at a time: with a servo that
\* fails the loop condition never changes by itself
InLoop == "State.GoToMode:loop"

\* the call prints in verbose mode, returns for Unknown, and else enters the loop
StateGoToModeEnter ==
    /\ last.op = "none"
    /\ \E target \in ControlModes :
          /\ log' = Emit(StateEnv, "GoToMode", target).log
          /\ last' = [NoCall(st) EXCEPT !.arg = target,
                          !.op = IF target = ControlModeUnknown THEN "State.GoToMode" ELSE InLoop]
    /\ UNCHANGED <<d, cfg, servo, total, st, dir, run, stepper, pipe, host, moved, roasterUI>>

\* for s.currentControlMode != target { _ = s.ClickButton() }
StateGoToModeIterate ==
    /\ last.op = InLoop
    /\ st.currentControlMode # last.arg
    /\ Count(log, "click") < MaxClicks
    /\ \E r \in {StateClickButton([StateEnv EXCEPT !.log = log])} :
          /\ st' = r.d
          /\ log' = r.log
    /\ UNCHANGED <<d, cfg, servo, last, total, dir, run, stepper, pipe, host, moved, roasterUI>>

\* the loop condition is false: the call returns
StateGoToModeExit ==
    /\ last.op = InLoop
    /\ st.currentControlMode = last.arg
    /\ last' = [last EXCEPT !.op = "State.GoToMode"]
    /\ UNCHANGED <<d, cfg, servo, log, total, st, dir, run, stepper, pipe, host, moved, roasterUI>>

\* the caller of a call that has returned is ready for its next call
RetryReturn ==
    /\ last.op \notin {"none", InLoop}
    /\ last' = NoCall(d)
    /\ log' = <<>>
    /\ UNCHANGED <<d, cfg, servo, total, st, dir, run, stepper, pipe, host, moved, roasterUI>>

\* levels that let Start go through
DoFixLevels ==
    \/ Call("FixFan", 1, FixFan(Env, 1))
    \/ Call("FixPower", 1, FixPower(Env, 1))

NextRetry ==
    \/ ServoFault
    \/ StateGoToModeEnter
    \/ StateGoToModeIterate
    \/ StateGoToModeExit
    \/ DoStateFixControlMode
    \/ DoGoToMode
    \/ DoFixControlMode
    \/ DoFixLevels
    \/ DoStart
    \/ Tick
    \/ RetryReturn

\* both GoToMode implementations, with a servo that can fail
SpecRetry == Init /\ [][NextRetry]_vars
\* ------------------------------------------------------------ Stepper specification
InitStepper ==
    /\ d = New
    /\ st = NewState(StateConfig)
    /\ dir = 0
    /\ run = Idle
    /\ cfg \in Configs
    /\ servo = "ok"
    /\ log = <<>>
    /\ last = NoCall(New)
    /\ total = [inc |-> 0, steps |-> 0]
    /\ stepper \in {NewStepper([StepMode |-> m]) : m \in StepModes}
    /\ pipe = NewPipe
    /\ host = NewSerialController
    /\ moved = NoMoves
    /\ roasterUI = NewRoasterUI

DoStepperMove ==
    /\ last.op = "none"
    /\ \E steps \in MinInt32..MaxInt32 :
       \E r \in {Stepper_Move([s |-> stepper, log |-> <<>>], steps)} :
          /\ stepper' = r.s
          /\ log' = r.log
          /\ last' = [op |-> "Stepper.Move", arg |-> steps, pre |-> stepper,
                      ret |-> FALSE, err |-> FALSE, dir |-> 0, after |-> FALSE]
    /\ UNCHANGED <<d, cfg, servo, total, st, dir, run, pipe, host, moved, roasterUI>>

NextStepper ==
    \/ DoStepperMove
    \/ Return

\* one Stepper driven by any sequence of Move calls
SpecStepper == InitStepper /\ [][NextStepper]_vars
\* ------------------------------------------------------------ pipe specification
InitPipe ==
    /\ d = New
    /\ st = NewState(StateConfig)
    /\ dir = 0
    /\ run = Idle
    /\ stepper = NewStepper([StepMode |-> StepModeHalf])
    /\ cfg \in Configs
    /\ servo = "ok"
    /\ log = <<>>
    /\ last = NoCall(New)
    /\ total = [inc |-> 0, steps |-> 0]
    /\ pipe = NewPipe
    /\ host = NewSerialController
    /\ moved = NoMoves
    /\ roasterUI = NewRoasterUI

\* a widget of the UI calls a method of controllerWrapper
UIWrite ==
    /\ pipe.mu = "none"
    /\ pipe.ui < MaxWrites * LineLen
    /\ \E n \in {FprintfWriteLen} :
          pipe' = PipeWrite([pipe EXCEPT !.ui = @ + n], "ui",
                            [i \in 1..n |-> UIByte(pipe.ui + i)])
    /\ UNCHANGED <<d, cfg, servo, log, last, total, st, dir, run, stepper, host, moved, roasterUI>>

\* io.Copy has read a chunk from os.Stdin and writes it
StdinWrite ==
    /\ pipe.mu = "none"
    /\ ~pipe.closed
    /\ pipe.stdin < MaxWrites
    /\ \E n \in 1..MaxChunk :
          pipe' = PipeWrite([pipe EXCEPT !.stdin = @ + 1], "stdin",
                            StdinChunk(pipe.stdin + 1, n))
    /\ UNCHANGED <<d, cfg, servo, log, last, total, st, dir, run, stepper, host, moved, roasterUI>>

\* os.Stdin is at its end: io.Copy returns and the deferred w.Close() runs
StdinEOF ==
    /\ pipe.mu # "stdin"
    /\ ~pipe.closed
    /\ pipe' = PipeClose(pipe)
    /\ UNCHANGED <<d, cfg, servo, log, last, total, st, dir, run, stepper, host, moved, roasterUI>>

\* the controller reads from the pipe, into a buffer of any size
ControllerRead ==
    /\ pipe.mu # "none"
    /\ \E n \in 1..Len(pipe.data) : pipe' = PipeRead(pipe, n)
    /\ UNCHANGED <<d, cfg, servo, log, last, total, st, dir, run, stepper, host, moved, roasterUI>>

NextPipe ==
    \/ UIWrite
    \/ StdinWrite
    \/ StdinEOF
    \/ ControllerRead

\* runUI: the UI and the stdin copier write to the pipe the controller reads
SpecPipe == InitPipe /\ [][NextPipe]_vars


\* ------------------------------------------------------------ host specification
\* the lines the operator types
Lines ==
    { COOL, FC, DONE, NOTE, NOTE \o <<" ">>, NOTE \o <<" ", "x">>, NOTE \o <<"S">>,
      <<" ">> \o FC, <<"F", "5">>, <<"P", "5">>, <<"S">>, <<"D">>, <<"C">>, <<>>, <<" ">> }

InitHost ==
    /\ d = New
    /\ st = NewState(StateConfig)
    /\ dir = 0
    /\ run = Idle
    /\ stepper = NewStepper([StepMode |-> StepModeHalf])
    /\ pipe = NewPipe
    /\ cfg \in Configs
    /\ servo = "ok"
    /\ log = <<>>
    /\ last = NoCall(New)
    /\ total = [inc |-> 0, steps |-> 0]
    /\ host = NewSerialController
    /\ moved = NoMoves
    /\ roasterUI = NewRoasterUI

\* the scanner delivers a line; the TWChart server answers or not
ScanLine ==
    /\ Len(host.port) < MaxSent
    /\ Len(host.twchart) < MaxSent
    /\ \E scanned \in Lines, ok \in BOOLEAN :
       \E r \in {runLine([h |-> host, log |-> <<>>, matched |-> FALSE, err |-> FALSE],
                         ok, scanned)} :
          /\ host' = r.h
          /\ log' = r.log
          /\ last' = [op |-> "line", arg |-> scanned, pre |-> host, ret |-> r.matched,
                      err |-> r.err, dir |-> 0, after |-> ok]
    /\ UNCHANGED <<d, cfg, servo, total, st, dir, run, stepper, pipe, moved, roasterUI>>

NextHost == ScanLine

\* run of the host's serial controller, line by line
SpecHost == InitHost /\ [][NextHost]_vars
\* the display's cycle, as the claims state it
Succ(m) == CASE m = ControlModeFan -> ControlModePower
             [] m = ControlModePower -> ControlModeTimer
             [] m = ControlModeTimer -> ControlModeFan
RECURSIVE SuccK(_, _)
SuccK(m, k) == IF k = 0 THEN m ELSE SuccK(Succ(m), k - 1)
\* clicks from one mode of the cycle to another
Dist(from, to) == (to - from + 3) % 3
\* the extra bias of a move to an end of the range
Bias(level) == IF level = 9 THEN 3 ELSE IF level = 1 THEN -3 ELSE 0
\* the select mode has not timed out: not started, or clicked 3 seconds ago or less
NoTimeout(dev) == dev.startTime = NoTime \/ (dev.lastClick # NoTime /\ dev.lastClick <= 3)
\* the bytes '1'..'9' and the digit each stands for, as the claims state them
IsDigit(b) == b \in (B.d0 + 1)..(B.d0 + 9)
DigitOf(b) == b - B.d0
\* the command the dispatcher has just run: its flag and its argument bytes
Ran(flag) == last.op = "Run" /\ last.arg[1] = flag
\* the Device method a call of Spec names, run on another environment
Apply(op, arg, e) ==
    CASE op = "SetFan" -> SetFan(e, arg)
      [] op = "SetPower" -> SetPower(e, arg)
      [] op = "MoveFan" -> MoveFan(e, arg)
      [] op = "MovePower" -> MovePower(e, arg)
      [] op = "MoveTimer" -> MoveTimer(e, arg)
      [] op = "Move" -> Move(e, arg)
      [] op = "GoToMode" -> GoToMode(e, arg)
      [] op = "Controller.GoToMode" -> Controller_GoToMode(e, arg)
      [] op = "SetModeCommand" -> SetModeCommand(e, arg)
      [] op = "FixControlMode" -> FixControlMode(e, arg)
      [] op = "FixFan" -> FixFan(e, arg)
      [] op = "FixPower" -> FixPower(e, arg)
      [] op = "ClickButton" -> ClickButton(e)
      [] op = "IncreaseTime" -> IncreaseTime(e)
      [] op = "Start" -> Start(e)
      [] op = "Verbose" -> Verbose(e)
      [] op = "MicroStep" -> MicroStep(e, arg)
      [] op = "Debug" -> Debug(e)
      [] op = "Settings" -> Settings(e)

\* the events of a call without its verbose printouts
Quiet(l) == SelectSeq(l, LAMBDA ev : ev[1] # "println")
\* what reaches the servo and the stepper
Actuation(l) == SelectSeq(l, LAMBDA ev : ev[1] \in {"click", "servo", "step"})
\* two Devices that differ at most in verbose
SameButVerbose(d1, d2) == [d1 EXCEPT !.verbose = FALSE] = [d2 EXCEPT !.verbose = FALSE]


\* ------------------------------------------------------------ UI specification
InitUI ==
    /\ d = New
    /\ st = NewState(StateConfig)
    /\ dir = 0
    /\ run = Idle
    /\ stepper = NewStepper([StepMode |-> StepModeHalf])
    /\ pipe = NewPipe
    /\ host = NewSerialController
    /\ moved = NoMoves
    /\ roasterUI = NewRoasterUI
    /\ cfg \in Configs
    /\ servo = "ok"
    /\ log = <<>>
    /\ last = NoCall(New)
    /\ total = [inc |-> 0, steps |-> 0]

UIUnchanged == UNCHANGED <<d, cfg, servo, log, last, total, st, dir, run, stepper, pipe, host, moved>>

\* a press of the state button; a disabled button takes no press, and a
\* panic ends the program
PressStateButton ==
    /\ ~roasterUI.disabled
    /\ ~roasterUI.panicked
    /\ roasterUI' = OnStateButton(roasterUI)
    /\ UIUnchanged

\* <-waitForStart in a timer's goroutine
TimerStart ==
    /\ ~roasterUI.panicked
    /\ \E t \in Timers :
          /\ roasterUI.timer[t].pc = "wait"
          /\ roasterUI.closed[WaitsFor(t)]
          /\ roasterUI' = [roasterUI EXCEPT !.timer[t].pc = "tick"]
    /\ UIUnchanged

\* a tick of a timer: it returns when its stop channel is closed, else it
\* shows the time since its start
TimerTick ==
    /\ ~roasterUI.panicked
    /\ \E t \in Timers :
          /\ roasterUI.timer[t].pc = "tick"
          /\ roasterUI' = IF roasterUI.closed[t]
                          THEN [roasterUI EXCEPT !.timer[t].pc = "done"]
                          ELSE [roasterUI EXCEPT !.timer[t].text =
                                    roasterUI.clock - roasterUI.timer[t].startTime]
    /\ UIUnchanged

\* a second passes
ClockTick ==
    /\ roasterUI.clock < MaxClock
    /\ roasterUI' = [roasterUI EXCEPT !.clock = @ + 1]
    /\ UIUnchanged

NextUI ==
    \/ PressStateButton
    \/ TimerStart
    \/ TimerTick
    \/ ClockTick

\* the state button of the RoasterUI, its channels and its timers
SpecUI == InitUI /\ [][NextUI]_vars
\* ------------------------------------------------------------ claims
\* C1: SetFan(level) / SetPower(level) with level in 1..9 issues exactly one
\* Move, of level - stored + 3 (level 9) or - 3 (level 1), stores the level only
\* after the move and its steps, ends with the stored level equal to level and
\* leaves the other level as it was.
C1_SetLevelMovesThenStores ==
    /\ (last.op = "SetFan" /\ last.arg \in 1..9) =>
          /\ Count(log, "Move") = 1
          /\ The(log, "Move") = last.arg - last.pre.fan + Bias(last.arg)
          /\ Count(log, "fan") = 1 /\ Count(log, "power") = 0
          /\ The(log, "fan") = last.arg
          /\ Before(log, "Move", "fan") /\ Before(log, "step", "fan")
          /\ d.fan = last.arg
          /\ d.power = last.pre.power
    /\ (last.op = "SetPower" /\ last.arg \in 1..9) =>
          /\ Count(log, "Move") = 1
          /\ The(log, "Move") = last.arg - last.pre.power + Bias(last.arg)
          /\ Count(log, "power") = 1 /\ Count(log, "fan") = 0
          /\ The(log, "power") = last.arg
          /\ Before(log, "Move", "power") /\ Before(log, "step", "power")
          /\ d.power = last.arg
          /\ d.fan = last.pre.fan
C1_Witness ==
    /\ last.op = "SetFan" /\ last.arg = 9 /\ last.pre.fan = 6
    /\ Ev("Move", 6) \in {log[i] : i \in 1..Len(log)}
    /\ d.fan = 9

\* C2: without compensation, with a whole number s of steps per increment and
\* remainder 0, SetFan(level), 1 < level < 9, from stored level f calls
\* GoToMode(Fan) first, then drives the stepper exactly (level - f) * s steps in
\* one stepper move, and ends in Fan mode with fan = level.
C2_SetFanSteps ==
    (/\ last.op = "SetFan" /\ last.arg \in 2..8
     /\ cfg.BackstepRatio = 0 /\ cfg.StepsPerIncrement % Scale = 0
     /\ last.pre.remainder = 0) =>
        /\ Quiet(log)[1] = Ev("GoToMode", ControlModeFan)
        /\ Count(log, "GoToMode") = 1
        /\ d.currentControlMode = ControlModeFan
        /\ Before(log, "click", "step")
        /\ Count(log, "step") = 1
        /\ The(log, "step") = (last.arg - last.pre.fan) * (cfg.StepsPerIncrement \div Scale)
        /\ d.fan = last.arg
C2_Witness ==
    /\ last.op = "SetFan" /\ last.arg = 5 /\ last.pre.fan = 0
    /\ cfg.StepsPerIncrement = 4 * Scale /\ cfg.BackstepRatio = 0
    /\ log[1] = Ev("GoToMode", ControlModeFan)
    /\ The(log, "step") = 20
    /\ d.fan = 5

\* C3: with no select-mode timeout, GoToMode(target) between modes of the cycle
\* ends in target after as many clicks as there are Next steps from the starting
\* mode to target (none when already there), the mode advancing by one Next
\* after each click.
C3_GoToModeClicks ==
    (/\ last.op = "GoToMode" /\ last.arg \in Cycle
     /\ last.pre.currentControlMode \in Cycle /\ NoTimeout(last.pre)) =>
        /\ d.currentControlMode = last.arg
        /\ Count(log, "click") = Dist(last.pre.currentControlMode, last.arg)
        /\ Count(log, "mode") = Count(log, "click")
        /\ \A k \in 1..Count(log, "mode") :
              /\ log[Nth(log, "mode", k)][2] = SuccK(last.pre.currentControlMode, k)
              /\ Nth(log, "click", k) < Nth(log, "mode", k)
              /\ k > 1 => Nth(log, "mode", k - 1) < Nth(log, "click", k)
        /\ last.pre.currentControlMode = last.arg => Count(log, "click") = 0
C3_Witness ==
    /\ last.op = "GoToMode" /\ last.arg = ControlModeFan
    /\ last.pre.currentControlMode = ControlModePower /\ NoTimeout(last.pre)
    /\ Count(log, "click") = 2
    /\ d.currentControlMode = ControlModeFan

\* C5: Start() with a stored level of 0 returns an error and changes no field
\* (startTime stays unset); otherwise it returns no error and sets startTime to
\* the current time, changing nothing else.
C5_Start ==
    last.op = "Start" =>
        IF last.pre.fan = 0 \/ last.pre.power = 0
        THEN last.err /\ d = last.pre
        ELSE ~last.err /\ d = [last.pre EXCEPT !.startTime = Now]
C5_Witness ==
    /\ last.op = "Start" /\ last.pre.fan = 0 /\ last.pre.power = 5
    /\ last.err /\ d.startTime = NoTime

\* C6: SetFan / SetPower with a level outside 1..9 issues no click and no
\* stepper step and leaves fan, power, currentControlMode, remainder and
\* lastClick as they were.
C6_OutOfRangeNoOp ==
    (last.op \in {"SetFan", "SetPower"} /\ last.arg \notin 1..9) =>
        /\ Count(log, "click") = 0 /\ Count(log, "step") = 0
        /\ d.fan = last.pre.fan /\ d.power = last.pre.power
        /\ d.currentControlMode = last.pre.currentControlMode
        /\ d.remainder = last.pre.remainder
        /\ d.lastClick = last.pre.lastClick
C6_Witness ==
    /\ last.op = "SetFan" /\ last.arg = 0 /\ last.pre.fan = 5
    /\ last.pre.currentControlMode = ControlModePower
    /\ d = last.pre /\ log = <<>>

\* C10: Next is the 3-cycle Fan -> Power -> Timer -> Fan: three Next steps lead
\* back to every mode of the cycle and Next never leaves the cycle; so it is
\* for the mode the Device is in.
C10_NextCycle ==
    /\ Next_(ControlModeFan) = ControlModePower
    /\ Next_(ControlModePower) = ControlModeTimer
    /\ Next_(ControlModeTimer) = ControlModeFan
    /\ \A m \in Cycle : Next_(Next_(Next_(m))) = m /\ Next_(m) # ControlModeUnknown
    /\ d.currentControlMode \in Cycle =>
          /\ Next_(Next_(Next_(d.currentControlMode))) = d.currentControlMode
          /\ Next_(d.currentControlMode) \in Cycle
C10_Witness ==
    /\ last.op = "GoToMode" /\ last.pre.currentControlMode = ControlModeTimer
    /\ last.arg = ControlModePower
    /\ Count(log, "click") = 2
    /\ d.currentControlMode = ControlModePower
\* the steps a single Move(n) sends on a new Device
SingleMove(n) == SumOf(Move([d |-> New, log |-> <<>>, ret |-> FALSE, err |-> FALSE], n).log, "step")

\* C7 as stated: without compensation and from remainder 0, the steps of any
\* sequence of Move calls sum to the steps of a single Move of the summed
\* increments.
C7_SumEqualsSingleMove ==
    cfg.BackstepRatio = 0 => total.steps = SingleMove(total.inc)
\* C7 as amended: the steps sum to the summed increments times
\* stepsPerIncrement minus the final remainder, which is at most half a step;
\* the sum is the count of a single Move of the summed increments when the
\* remainder is below half a step and within one step of it otherwise; with
\* stepsPerIncrement 2.5 Move(1) from remainder 0 sends 3 steps and leaves
\* -0.5, and Move(1) from -0.5 sends 2 steps and leaves 0.
C7_SumTracksProduct ==
    cfg.BackstepRatio = 0 =>
        /\ total.steps * Scale + d.remainder = total.inc * cfg.StepsPerIncrement
        /\ 2 * Abs(d.remainder) <= Scale
        /\ 2 * Abs(d.remainder) < Scale => total.steps = SingleMove(total.inc)
        /\ Abs(total.steps - SingleMove(total.inc)) <= 1
        /\ (/\ 2 * cfg.StepsPerIncrement = 5 * Scale
            /\ last.op = "Move" /\ last.arg = 1) =>
              /\ last.pre.remainder = 0 =>
                    SumOf(log, "step") = 3 /\ 2 * d.remainder = -Scale
              /\ 2 * last.pre.remainder = -Scale =>
                    SumOf(log, "step") = 2 /\ d.remainder = 0
C7_Witness ==
    /\ 2 * cfg.StepsPerIncrement = 5 * Scale /\ cfg.BackstepRatio = 0
    /\ last.op = "Move" /\ last.arg = 1 /\ 2 * last.pre.remainder = -Scale
    /\ SumOf(log, "step") = 2 /\ d.remainder = 0
    /\ total = [inc |-> 2, steps |-> 5]

\* C8: after any sequence of Move, MoveFan, MovePower, SetFan, SetPower and
\* IncreaseTime calls the remainder is less than one step in magnitude.
C8_RemainderBelowOneStep ==
    Abs(d.remainder) < Scale
C8_Witness ==
    /\ last.op = "SetFan" /\ cfg.BackstepRatio > 0
    /\ last.pre.remainder # 0 /\ d.remainder # 0
    /\ d.remainder # last.pre.remainder
\* C9: State.move adds the backlash steps to a move only when the move's sign
\* differs from a nonzero lastDirection; a move in the direction the stepper
\* last turned in gets exactly its increments times StepsPerIncrement.
C9_BacklashOnlyOnReversal ==
    (last.op \in {"MoveFan", "MovePower", "MoveTimer", "SetFan", "SetPower"}
     /\ Count(log, "step") > 0) =>
        LET plain == The(log, "Move") * last.pre.calibrationCfg.StepsPerIncrement
            sent == The(log, "step")
        IN  /\ Count(log, "step") = 1 /\ Count(log, "Move") = 1
            /\ sent # plain =>
                  /\ last.pre.lastDirection # 0
                  /\ Sign(plain) = -last.pre.lastDirection
                  /\ sent = plain + Sign(plain) * last.pre.calibrationCfg.BacklashSteps
            /\ (last.dir # 0 /\ Sign(plain) = last.dir) => sent = plain
C9_Witness ==
    /\ last.op = "MovePower" /\ last.arg = 1 /\ last.dir = 1
    /\ last.pre.currentControlMode = ControlModeFan
    /\ The(log, "step") = 28
\* C4: in every state commands.Run reaches from a byte stream, the stored fan and
\* the stored power are integers from 0 to 9.
C4_LevelsInRange ==
    /\ d.fan \in 0..9
    /\ d.power \in 0..9
\* 'I' with '9' and then a byte that is no digit from 1 to 9
C4_Witness ==
    /\ last.op = "Run"
    /\ last.arg = <<B.I, B.d9, B.slash>>
    /\ d.fan = 9 /\ d.power = 0
C12_FixChangesOnlyItsField ==
    /\ last.op = "FixFan" => Count(log, "click") = 0 /\ Count(log, "servo") = 0 /\ Count(log, "step") = 0
                             /\ d = [last.pre EXCEPT !.fan = last.arg]
    /\ last.op = "FixPower" => Count(log, "click") = 0 /\ Count(log, "servo") = 0 /\ Count(log, "step") = 0
                               /\ d = [last.pre EXCEPT !.power = last.arg]
    /\ last.op = "FixControlMode" => Count(log, "click") = 0 /\ Count(log, "servo") = 0 /\ Count(log, "step") = 0
                                     /\ d = [last.pre EXCEPT !.currentControlMode = last.arg]
C12_Witness ==
    /\ last.op = "FixControlMode" /\ last.arg = ControlModeTimer
    /\ last.pre.currentControlMode = ControlModeFan
    /\ last.pre.fan = 5 /\ last.pre.startTime # NoTime
    /\ d.currentControlMode = ControlModeTimer /\ d.fan = 5
    /\ log = <<>>
C14_FixLeavesDigit ==
    /\ (Ran(B.f) /\ IsDigit(last.arg[2])) =>
          d.fan = DigitOf(last.arg[2]) /\ d.power = last.pre.power
    /\ (Ran(B.p) /\ IsDigit(last.arg[2])) =>
          d.power = DigitOf(last.arg[2]) /\ d.fan = last.pre.fan
    /\ Ran(B.D) =>
          /\ Count(log, "Debug") = 1
          /\ The(log, "Debug")[2] = B.d0 + last.pre.fan
          /\ The(log, "Debug")[3] = B.d0 + last.pre.power
          /\ d = last.pre
\* C15: on a freshly initialised device that has not been started, F1 and then
\* P1 leave fan 1, power 1 and the mode Fan, and a following D prints the
\* timestamp [-], F1/P1 and mode=Fan.
C15_FreshF1P1Debug ==
    /\ (Ran(B.F) /\ last.arg[2] = B.d1 /\ last.pre = New) =>
          /\ d.fan = 1 /\ d.power = 0
          /\ d.currentControlMode = ControlModeFan /\ d.startTime = NoTime
    /\ (/\ Ran(B.P) /\ last.arg[2] = B.d1
        /\ last.pre.fan = 1 /\ last.pre.power = 0
        /\ last.pre.currentControlMode = ControlModeFan
        /\ last.pre.startTime = NoTime) =>
          /\ d.fan = 1 /\ d.power = 1
          /\ d.currentControlMode = ControlModeFan /\ d.startTime = NoTime
    /\ (/\ Ran(B.D)
        /\ last.pre.fan = 1 /\ last.pre.power = 1
        /\ last.pre.currentControlMode = ControlModeFan
        /\ last.pre.startTime = NoTime) =>
          The(log, "Debug") = <<"[-]", B.d1, B.d1, ControlModeString(ControlModeFan)>>
\* C16: a dispatcher command whose argument must be a digit 1-9 (F, P, f, p, I)
\* rejects an argument byte that is not '1'..'9' (for F and P: nor '+' or '-'):
\* the Device is unchanged, no click and no stepper step is issued, and the
\* command returns an error.
C16_InvalidArgumentRejected ==
    (/\ last.op = "Run"
     /\ \/ last.arg[1] \in {B.F, B.P} /\ ~IsDigit(last.arg[2])
                                        /\ last.arg[2] \notin {B.plus, B.minus}
        \/ last.arg[1] \in {B.f, B.p} /\ ~IsDigit(last.arg[2])
        \/ last.arg[1] = B.I /\ (~IsDigit(last.arg[2]) \/ ~IsDigit(last.arg[3])))
    => /\ d = last.pre
       /\ Count(log, "click") = 0 /\ Count(log, "step") = 0
       /\ last.err
\* C17: the dispatcher consumes exactly InputSize(flag) bytes after a known
\* flag, whatever they are, and runs the command once with them in arrival
\* order; read errors in between neither add, drop nor reorder a byte; while
\* the arguments are being consumed nothing is dispatched.
C17_ArgumentsConsumedInOrder ==
    /\ run # Idle =>
          /\ run.cmdIn \in Flags
          /\ Len(run.in) < InputSize(run.cmdIn)
          /\ last.op = "Read"
          /\ last.arg = <<run.cmdIn>> \o run.in
          /\ log = <<>> /\ d = last.pre
    /\ last.op = "Run" =>
          /\ run = Idle
          /\ last.arg[1] \in Flags
          /\ Len(last.arg) = 1 + InputSize(last.arg[1])
          /\ Count(log, "Run") = 1
          /\ log[1] = Ev("Run", last.arg)
\* an argument byte that is itself a flag is consumed as an argument
C17_Witness ==
    /\ last.op = "Run" /\ last.arg = <<B.I, B.F, B.d5>>
    /\ d.fan = 0 /\ d.power = 5
\* C18: a byte that is no flag runs nothing and changes nothing; after such a
\* byte, and after a command that returned an error, the dispatcher is back at
\* reading a command byte, and every flag that arrives next is taken up (run at
\* once, or its input awaited) as from any other state.
C18_DispatcherContinues ==
    /\ last.op = "Skip" =>
          /\ last.arg[1] \notin Flags
          /\ d = last.pre /\ log = <<>> /\ run = Idle
    /\ (last.op = "Run" /\ last.err) => run = Idle
    /\ (last.op = "none" /\ last.after) =>
          /\ run = Idle
          /\ \A flag \in Flags \cap Bytes :
                ENABLED (/\ ReadCommand
                         /\ last'.arg = <<flag>>
                         /\ last'.op = IF InputSize(flag) = 0 THEN "Run" ELSE "Read")
\* a click command run right after a command that failed or a byte that was skipped
C18_Witness ==
    /\ last.op = "Run" /\ last.after
    /\ last.arg = <<B.C>> /\ Count(log, "click") = 1
\* C19: when a SetAngle of the servo fails during a click, the operation that
\* clicked (ClickButton, GoToMode, SetFan, SetPower) returns an error to its
\* caller.
C19_ServoFailurePropagated ==
    (/\ last.op \in {"ClickButton", "GoToMode", "SetFan", "SetPower"}
     /\ servo # "ok"
     /\ Count(log, "click") > 0)
    => last.err
\* C20: once startTime is set (by a successful Start), no step of any Device
\* operation returns it to the zero value: it is set in every later state.
C20_StartTimeStaysSet ==
    [][d.startTime # NoTime => d'.startTime # NoTime]_vars
\* a Start refused on a device that was started before leaves startTime set
C20_Witness ==
    /\ last.op = "Start" /\ last.err
    /\ last.pre.startTime # NoTime
    /\ d.startTime # NoTime
\* C21: currentControlMode changes only inside GoToMode and FixControlMode.
\* ClickButton, Move, MicroStep, Start, FixFan, FixPower, Verbose, Debug and
\* Settings leave it as it was; an operation that ends in another mode is
\* FixControlMode, or has called GoToMode and ends in the mode it asked for.
C21_ModeChangesOnlyInGoToMode ==
    /\ last.op \in {"ClickButton", "Move", "MicroStep", "Start", "FixFan", "FixPower",
                    "Verbose", "Debug", "Settings"} =>
          /\ d.currentControlMode = last.pre.currentControlMode
          /\ Count(log, "GoToMode") = 0 /\ Count(log, "mode") = 0
    /\ (last.op # "none" /\ d.currentControlMode # last.pre.currentControlMode) =>
          \/ last.op = "FixControlMode" /\ d.currentControlMode = last.arg
          \/ /\ Count(log, "GoToMode") = 1
             /\ d.currentControlMode = The(log, "GoToMode")
             /\ Before(log, "GoToMode", "mode")
    /\ Count(log, "mode") > 0 => Count(log, "GoToMode") = 1
\* a click on a started device, in Power mode, after the select mode has timed out
C21_Witness ==
    /\ last.op = "ClickButton" /\ Count(log, "click") = 1
    /\ last.pre.startTime # NoTime /\ last.pre.lastClick = MaxAge
    /\ last.pre.currentControlMode = ControlModePower
    /\ d.currentControlMode = ControlModePower
\* C22: MoveFan(i) and MovePower(i) call GoToMode for their mode, then Move(i)
\* once, end in that mode and leave the stored fan and power levels as they
\* were, for every i and from every state.
C22_MoveKeepsStoredLevels ==
    /\ last.op = "MoveFan" =>
          /\ d.fan = last.pre.fan /\ d.power = last.pre.power
          /\ Count(log, "GoToMode") = 1 /\ The(log, "GoToMode") = ControlModeFan
          /\ Count(log, "Move") = 1 /\ The(log, "Move") = last.arg
          /\ Before(log, "GoToMode", "Move") /\ Before(log, "click", "Move")
          /\ Count(log, "fan") = 0 /\ Count(log, "power") = 0
          /\ d.currentControlMode = ControlModeFan
    /\ last.op = "MovePower" =>
          /\ d.fan = last.pre.fan /\ d.power = last.pre.power
          /\ Count(log, "GoToMode") = 1 /\ The(log, "GoToMode") = ControlModePower
          /\ Count(log, "Move") = 1 /\ The(log, "Move") = last.arg
          /\ Before(log, "GoToMode", "Move") /\ Before(log, "click", "Move")
          /\ Count(log, "fan") = 0 /\ Count(log, "power") = 0
          /\ d.currentControlMode = ControlModePower
C22_Witness ==
    /\ last.op = "MovePower" /\ last.arg = -1
    /\ last.pre.currentControlMode = ControlModeFan
    /\ last.pre.fan = 5 /\ last.pre.power = 7
    /\ Count(log, "click") = 1 /\ Count(log, "step") = 1
    /\ d.fan = 5 /\ d.power = 7
\* C23: verbose has no effect on control. Every operation, run from the same
\* Device state once with verbose on and once with verbose off, issues the same
\* sequence of clicks, servo moves and stepper steps, returns the same result
\* and ends in the same state but for verbose (a second later as well); so two
\* controllers that start in the same state and get the same operations stay
\* in step. Of the two runs of an operation with a verbose println, exactly the
\* verbose one prints.
C23_VerboseNoEffect ==
    last.op # "none" =>
        \E other \in {Apply(last.op, last.arg,
                            [d |-> [last.pre EXCEPT !.verbose = ~@], log |-> <<>>,
                             ret |-> FALSE, err |-> FALSE])} :
            /\ Actuation(other.log) = Actuation(log)
            /\ SameButVerbose(other.d, d)
            /\ other.ret = last.ret /\ other.err = last.err
            /\ (Count(other.log, "println") > 0) # (Count(log, "println") > 0)
                  \/ last.op \notin {"SetFan", "SetPower", "MoveFan", "MovePower", "MoveTimer",
                                     "GoToMode", "ClickButton", "IncreaseTime"}
\* a verbose SetPower that prints, clicks twice (re-arm, then to Power) and steps
C23_Witness ==
    /\ last.op = "SetPower" /\ last.arg = 5 /\ last.pre.verbose
    /\ last.pre.startTime # NoTime /\ last.pre.lastClick = MaxAge
    /\ last.pre.currentControlMode = ControlModeFan
    /\ Count(log, "println") = 5 /\ Count(log, "click") = 2 /\ Count(log, "step") = 1
\* C24 (as claimed): Stepper.Move(k) performs exactly |k| phase transitions,
\* each one +1 (k > 0) or -1 (k < 0) from the phase before it modulo the length
\* of the sequence (4 full-step, 8 half-step); the phase index stays within
\* 0..length-1 and carries over from the call before, so it ends at the old
\* index plus k modulo the length, and Move(-k) leads back.
C24_PhaseTransitions ==
    last.op = "Stepper.Move" =>
        LET k == last.arg
            len == IF last.pre.stepMode = StepModeHalf THEN 8 ELSE 4
            p0 == last.pre.currentStep
        IN  /\ Len(log) = (IF k < 0 THEN -k ELSE k)
            /\ \A i \in 1..Len(log) :
                  log[i] = <<"phase", (p0 + (IF k < 0 THEN -i ELSE i)) % len>>
            /\ stepper.currentStep \in 0..(len - 1)
            /\ stepper.currentStep = (p0 + k) % len
            /\ stepper.stepMode = last.pre.stepMode
\* C24 (as the code does it): the above for every k but the least int32, whose
\* negation wraps to itself: Move of the least int32 makes no transition.
C24_PhaseTransitionsButMinInt ==
    /\ stepper.currentStep \in 0..(sequenceLen(stepper) - 1)
    /\ last.op = "Stepper.Move" =>
        LET k == last.arg
            len == IF last.pre.stepMode = StepModeHalf THEN 8 ELSE 4
            p0 == last.pre.currentStep
        IN  /\ k # MinInt32 =>
                  /\ Len(log) = (IF k < 0 THEN -k ELSE k)
                  /\ \A i \in 1..Len(log) :
                        log[i] = <<"phase", (p0 + (IF k < 0 THEN -i ELSE i)) % len>>
                  /\ stepper.currentStep = (p0 + k) % len
            /\ k = MinInt32 => log = <<>> /\ stepper = last.pre
            /\ stepper.stepMode = last.pre.stepMode
\* three half-steps forward from phase 6 wrap to phase 1
C24_Witness ==
    /\ last.op = "Stepper.Move" /\ last.arg = 3
    /\ last.pre = [stepMode |-> StepModeHalf, currentStep |-> 6]
    /\ log = << <<"phase", 7>>, <<"phase", 0>>, <<"phase", 1>> >>
    /\ stepper.currentStep = 1
\* what the controller has read that the UI wrote, and what the UI has handed over
UIOut == SelectSeq(pipe.out, LAMBDA b : b[1] = "ui")
UIWritten == [i \in 1..pipe.ui |-> UIByte(i)]
\* a byte of a UI line that is not its last is followed at once by the next
\* byte of the same line
UILinesContiguous ==
    \A i \in 1..(Len(pipe.out) - 1) :
        (pipe.out[i][1] = "ui" /\ pipe.out[i][3] < LineLen) =>
            pipe.out[i + 1] = <<"ui", pipe.out[i][2], pipe.out[i][3] + 1>>
\* C25 (as claimed): all bytes of the UI and of stdin reach the controller
\* through the one pipe, and the bytes of a command line of the UI are never
\* interleaved with bytes of stdin, under any interleaving of the two writers.
C25_AllBytesReachUninterleaved ==
    /\ UILinesContiguous
    /\ UIOut \o (IF pipe.mu = "ui" THEN pipe.data ELSE <<>>) = UIWritten
\* C25 (as the code does it): the lines of the UI are never interleaved with
\* bytes of stdin and each writer's bytes arrive in the order written; every
\* byte written reaches the controller as long as stdin has not ended. Once
\* stdin ends the pipe is closed and what the UI writes is lost.
C25_UninterleavedUntilStdinEnds ==
    /\ UILinesContiguous
    /\ \A i \in 1..Len(UIOut) : UIOut[i] = UIByte(i)
    /\ \A i, j \in 1..Len(pipe.out) :
          (i < j /\ pipe.out[i][1] = "stdin" /\ pipe.out[j][1] = "stdin") =>
              \/ pipe.out[i][2] < pipe.out[j][2]
              \/ pipe.out[i][2] = pipe.out[j][2] /\ pipe.out[i][3] < pipe.out[j][3]
    /\ ~pipe.closed =>
          /\ UIOut \o (IF pipe.mu = "ui" THEN pipe.data ELSE <<>>) = UIWritten
          /\ ~pipe.rejected
    /\ pipe.rejected => pipe.closed
\* a whole line of the UI read between two chunks of stdin
C25_Witness ==
    \E i \in 1..Len(pipe.out) :
        /\ i + LineLen + 1 <= Len(pipe.out)
        /\ pipe.out[i][1] = "stdin"
        /\ \A k \in 1..LineLen : pipe.out[i + k] = <<"ui", 1, k>>
        /\ pipe.out[i + LineLen + 1][1] = "stdin"
\* the line is one the host must keep to itself
External(line) == line \in {COOL, FC, DONE} \/ HasPrefix(line, NOTE)
\* C26 (as claimed): COOL, FC, DONE and every line that begins with NOTE are
\* handled on the host: handleExternalCommands returns true, the line is not
\* written to the serial port, and the TWChart client is called (its request is
\* recorded when the server answers).
C26_ExternalNeverSent ==
    (last.op = "line" /\ External(TrimSpace(last.arg))) =>
        /\ last.ret
        /\ Count(log, "port.Write") = 0 /\ host.port = last.pre.port
        /\ last.after => (Count(log, "twchart") = 1 /\ ~last.err)
\* C26 (as the code does it): the above for every such line but the bare line
\* NOTE, which leaves the switch unmatched and is written to the serial port.
C26_ExternalNeverSentButBareNote ==
    /\ (last.op = "line" /\ External(TrimSpace(last.arg)) /\ TrimSpace(last.arg) # NOTE) =>
          /\ last.ret
          /\ Count(log, "port.Write") = 0 /\ host.port = last.pre.port
          /\ last.after => (Count(log, "twchart") = 1 /\ ~last.err)
    /\ (last.op = "line" /\ TrimSpace(last.arg) = NOTE) =>
          /\ ~last.ret /\ ~last.err
          /\ log = << <<"port.Write", NOTE>> >>
          /\ host.port = Append(last.pre.port, NOTE)
          /\ host.twchart = last.pre.twchart
\* a note is recorded as an event with its text and not sent on
C26_Witness ==
    /\ last.op = "line" /\ last.arg = NOTE \o <<" ", "x">> /\ last.after
    /\ last.ret
    /\ log = << <<"twchart", <<"AddEvent", <<"x">>>>>> >>
    /\ host.port = last.pre.port /\ Len(host.port) = 1
\* C27: on a started device whose last click is more than 3 seconds old (or
\* was never made), GoToMode(target), target in {Fan, Power, Timer}, clicks once
\* before any mode-advancing click; that click leaves the mode alone (the mode
\* still advances once per later click, Dist(old mode, target) times), and it
\* is made, as the only click, when the mode already is the target. On a device
\* not started, or 3 seconds or less after the last click, there is no such
\* click: every click advances the mode.
C27_RearmClick ==
    (last.op = "GoToMode" /\ last.arg \in Cycle) =>
        /\ d.currentControlMode = last.arg
        /\ last.pre.currentControlMode \in Cycle =>
              Count(log, "mode") = Dist(last.pre.currentControlMode, last.arg)
        /\ ~NoTimeout(last.pre) =>
              /\ Count(log, "click") = Count(log, "mode") + 1
              /\ \A i \in Idx(log, "mode") : Nth(log, "click", 2) < i
              /\ last.pre.currentControlMode = last.arg =>
                    Count(log, "click") = 1 /\ Count(log, "mode") = 0
        /\ NoTimeout(last.pre) =>
              /\ Count(log, "click") = Count(log, "mode")
              /\ \A k \in 1..Count(log, "mode") :
                    Nth(log, "click", k) < Nth(log, "mode", k)
\* started, last click 4 seconds ago, already in Power mode: one click, no advance
C27_Witness ==
    /\ last.op = "GoToMode" /\ last.arg = ControlModePower
    /\ last.pre.currentControlMode = ControlModePower
    /\ last.pre.startTime # NoTime /\ last.pre.lastClick = MaxAge
    /\ Count(log, "click") = 1 /\ Count(log, "mode") = 0
    /\ d.currentControlMode = ControlModePower

\* C28: GoToMode returns true exactly when it clicked at least once during the
\* call, be it the re-arm click or a mode-advancing click, and false when it
\* did not click; Controller.GoToMode of the host-side package does the same.
C28_ReturnsWhetherClicked ==
    last.op \in {"GoToMode", "Controller.GoToMode"} =>
        (last.ret <=> Count(log, "click") > 0)
\* true for the re-arm click alone
C28_Witness ==
    /\ last.op = "GoToMode" /\ last.arg = ControlModeFan
    /\ last.pre.currentControlMode = ControlModeFan
    /\ last.pre.startTime # NoTime /\ last.pre.lastClick = NoTime
    /\ Count(log, "click") = 1 /\ Count(log, "mode") = 0
    /\ last.ret
\* C29: GoToMode(Unknown) clicks nothing, not even the re-arm click of a
\* started device whose select mode has timed out, returns false and leaves
\* every field of the device as it was (in verbose mode it prints its name and
\* nothing else happens); the command M with an input byte other than F, P or
\* T is that call, and so does nothing to the roaster or the device.
C29_UnknownModeIsNoOp ==
    (\/ last.op \in {"GoToMode", "Controller.GoToMode"} /\ last.arg = ControlModeUnknown
     \/ last.op = "SetModeCommand" /\ last.arg[1] \notin {B.F, B.P, B.T}) =>
        /\ d = last.pre
        /\ ~last.ret /\ ~last.err
        /\ Count(log, "click") = 0
        /\ Actuation(log) = <<>>
        /\ \A i \in 1..Len(log) : \/ log[i] = Ev("GoToMode", ControlModeUnknown)
                                   \/ log[i] = Ev("println", "GoToMode")
\* M with the byte D on a started device in Power mode, 4 seconds after the last click
C29_Witness ==
    /\ last.op = "SetModeCommand" /\ last.arg = <<B.D>>
    /\ last.pre.startTime # NoTime /\ last.pre.lastClick = MaxAge
    /\ last.pre.currentControlMode = ControlModePower
    /\ d = last.pre /\ Count(log, "click") = 0 /\ ~last.ret
\* the k-th stepper move of a call
StepNo(l, k) == l[Nth(l, "step", k)][2]
\* a / b for a >= 0 and b > 0, rounded to the nearest integer
RoundDiv(a, b) == (2 * a + b) \div (2 * b)
\* the steps Move(n) owes: the increments and the carried remainder, rounded
StepsToApply == Round(last.arg * cfg.StepsPerIncrement + last.pre.remainder)

\* C30 as stated: with BackstepRatio > 0, Move(n) first drives the stepper
\* stepsToApply + extraSteps in the travel direction, extraSteps =
\* round(stepsPerIncrement / BackstepRatio), then drives it back by
\* extraSteps; the net displacement of the call is stepsToApply.
C30_OvershootAndReturn ==
    (last.op = "Move" /\ cfg.BackstepRatio > 0) =>
        LET extraSteps == RoundDiv(cfg.StepsPerIncrement, cfg.BackstepRatio)
            travel == IF StepsToApply < 0 THEN -1 ELSE 1
        IN  /\ Count(log, "step") = 2
            /\ StepNo(log, 1) = StepsToApply + travel * extraSteps
            /\ StepNo(log, 2) = -travel * extraSteps
            /\ SumOf(log, "step") = StepsToApply
\* C30, what Move does: with BackstepRatio > 0 the first stepper move is
\* stepsToApply with nothing added; when stepsPerIncrement / BackstepRatio, cut
\* to an integer, is not 0, a second move follows a 200 ms pause and drives the
\* stepper back by that many steps, so the call ends that many steps short of
\* stepsToApply.
C30_BackstepWithoutOvershoot ==
    (last.op = "Move" /\ cfg.BackstepRatio > 0) =>
        LET numBacksteps == cfg.StepsPerIncrement \div cfg.BackstepRatio
            travel == IF StepsToApply < 0 THEN -1 ELSE 1
        IN  /\ StepNo(log, 1) = StepsToApply
            /\ Count(log, "step") = (IF numBacksteps = 0 THEN 1 ELSE 2)
            /\ numBacksteps # 0 =>
                  /\ StepNo(log, 2) = -travel * numBacksteps
                  /\ Count(log, "sleep") = 1
                  /\ Nth(log, "step", 1) < Nth(log, "sleep", 1)
                  /\ Nth(log, "sleep", 1) < Nth(log, "step", 2)
            /\ SumOf(log, "step") = StepsToApply - travel * numBacksteps
\* Move(1) at 2.5 steps per increment and ratio 2: 3 steps forward, 1 back
C30_Witness ==
    /\ last.op = "Move" /\ last.arg = 1 /\ last.pre.remainder = 0
    /\ 2 * cfg.StepsPerIncrement = 5 * Scale /\ cfg.BackstepRatio = 2 * Scale
    /\ Count(log, "step") = 2
    /\ StepNo(log, 1) = 3 /\ StepNo(log, 2) = -1
\* C31 as stated: lastDirection is 0 before the first move and after every
\* move of a nonzero number of steps it is the sign of that move; so a move
\* against the direction the stepper last turned in gets the backlash steps.
C31_LastDirectionIsSignOfMove ==
    /\ st.lastDirection = dir
    /\ (/\ last.op \in {"MoveFan", "MovePower", "MoveTimer"}
        /\ last.dir # 0 /\ Sign(last.arg) = -last.dir) =>
          The(log, "step") = last.arg * last.pre.calibrationCfg.StepsPerIncrement
                             + Sign(last.arg) * last.pre.calibrationCfg.BacklashSteps
\* C31, what State.move does: lastDirection is 0 after NewState and is
\* assigned only where it is already nonzero, so it stays 0 through every move;
\* no move, a reversal included, gets the backlash steps.
C31_LastDirectionStaysZero ==
    /\ st.lastDirection = 0
    /\ (last.op \in {"MoveFan", "MovePower", "MoveTimer"}) =>
          /\ Count(log, "step") = 1
          /\ The(log, "step") = last.arg * last.pre.calibrationCfg.StepsPerIncrement
\* a move backward after a move forward: 28 steps back, no backlash, direction 0
C31_Witness ==
    /\ last.op = "MoveFan" /\ last.arg = -1 /\ last.dir = 1
    /\ The(log, "step") = -28
    /\ dir = -1 /\ st.lastDirection = 0
\* the clicks GoToMode(to) makes from the stored mode with a working servo,
\* the re-arm click apart
WorkingClicks(from, to) ==
    IF to = ControlModeUnknown THEN 0
    ELSE IF from \in Cycle THEN Dist(from, to)
    ELSE to
\* the re-arm click of a started device whose select mode has timed out
RearmClicks(dev, to) ==
    IF to # ControlModeUnknown /\ ~NoTimeout(dev) THEN 1 ELSE 0

\* C32 as stated: whatever the servo does, a GoToMode call makes no more click
\* attempts than it makes with a working servo, State.GoToMode as well as
\* Device.GoToMode.
C32_NoMoreClicksThanWorking ==
    /\ last.op \in {InLoop, "State.GoToMode"} =>
          Count(log, "click") <= WorkingClicks(last.pre.currentControlMode, last.arg)
    /\ last.op = "GoToMode" =>
          Count(log, "click") <= WorkingClicks(last.pre.currentControlMode, last.arg)
                                 + RearmClicks(last.pre, last.arg)
\* C32, what the two do: Device.GoToMode makes the clicks of a working servo
\* whatever the servo does, and returns at the target; State.GoToMode does with
\* a working servo, and with a failing servo its mode stays where it was,
\* however many clicks it has attempted.
C32_DeviceNeverRetries ==
    /\ last.op = "GoToMode" =>
          /\ Count(log, "click") = WorkingClicks(last.pre.currentControlMode, last.arg)
                                   + RearmClicks(last.pre, last.arg)
          /\ last.arg # ControlModeUnknown => d.currentControlMode = last.arg
    /\ (last.op = "State.GoToMode" /\ servo = "ok") =>
          Count(log, "click") = WorkingClicks(last.pre.currentControlMode, last.arg)
    /\ (last.op = InLoop /\ servo # "ok") =>
          st.currentControlMode = last.pre.currentControlMode
\* Device.GoToMode(Timer) from Fan with a servo that fails at the press: 2 attempts
C32_Witness ==
    /\ last.op = "GoToMode" /\ last.arg = ControlModeTimer
    /\ last.pre.currentControlMode = ControlModeFan
    /\ servo = "press"
    /\ Count(log, "click") = 2 /\ Count(log, "servo") = 2
    /\ d.currentControlMode = ControlModeTimer
\* the mode a call of the Device is in when it steps: clicks and mode advances
\* all come before the first step, so it is the mode the call ends in
ModeOrder(mode, store) ==
    /\ Count(log, "step") > 0
    /\ Before(log, "click", "step")
    /\ Before(log, "mode", "step")
    /\ Before(log, "GoToMode", "step")
    /\ d.currentControlMode = mode
    /\ Before(log, "step", store)
\* C33: in a SetFan or MoveFan call every click comes before the first stepper
\* step, the mode is Fan at every stepper step, and the fan level is stored
\* only after the stepper moves were issued (by SetFan within 1..9, once; by
\* MoveFan never); the same for SetPower and MovePower with Power and power.
C33_ClicksThenStepsThenStore ==
    /\ (last.op = "MoveFan" \/ (last.op = "SetFan" /\ last.arg \in 1..9)) =>
          /\ ModeOrder(ControlModeFan, "fan")
          /\ Count(log, "fan") = (IF last.op = "SetFan" THEN 1 ELSE 0)
          /\ Count(log, "power") = 0
    /\ (last.op = "MovePower" \/ (last.op = "SetPower" /\ last.arg \in 1..9)) =>
          /\ ModeOrder(ControlModePower, "power")
          /\ Count(log, "power") = (IF last.op = "SetPower" THEN 1 ELSE 0)
          /\ Count(log, "fan") = 0
\* SetFan(5) from Power mode on a started device after the select mode timed
\* out: the re-arm click and two mode clicks, then the steps, then the store
C33_Witness ==
    /\ last.op = "SetFan" /\ last.arg = 5
    /\ last.pre.currentControlMode = ControlModePower
    /\ ~NoTimeout(last.pre)
    /\ Count(log, "click") = 3 /\ Count(log, "step") = 1 /\ Count(log, "fan") = 1
    /\ Nth(log, "click", 3) < Nth(log, "step", 1)
    /\ Nth(log, "step", 1) < Nth(log, "fan", 1)
\* the angles a call has sent to the servo, in order: 1 the press, 0 the rest
ServoCommands == [i \in 1..Count(log, "servo") |-> log[Nth(log, "servo", i)][2]]
\* C34: ClickButton sends the press angle and then the rest angle, and sets
\* lastClick to the current time only when both were accepted; when the press
\* fails the rest angle is not sent, when either fails lastClick keeps its
\* value, and nothing else of the device changes in any case.
C34_ClickStampsOnlyOnSuccess ==
    last.op = "ClickButton" =>
        /\ Count(log, "click") = 1
        /\ servo = "ok" =>
              /\ ServoCommands = <<1, 0>>
              /\ d = [last.pre EXCEPT !.lastClick = Now]
        /\ servo = "press" =>
              /\ ServoCommands = <<1>>
              /\ d = last.pre
        /\ servo = "reset" =>
              /\ ServoCommands = <<1, 0>>
              /\ d = last.pre
\* a click 2 seconds after the last one, with a servo that fails at the release
C34_Witness ==
    /\ last.op = "ClickButton" /\ servo = "reset"
    /\ last.pre.lastClick = 2 /\ d.lastClick = 2
    /\ ServoCommands = <<1, 0>>
\* C35 as stated: Move(0) with remainder 0 displaces the stepper by a net of
\* 0 steps, and so does SetFan(level), 2 <= level <= 8, when the stored fan
\* level already is level, with and without BackstepRatio.
C35_SameLevelNoDisplacement ==
    /\ (last.op = "Move" /\ last.arg = 0 /\ last.pre.remainder = 0) =>
          SumOf(log, "step") = 0
    /\ (last.op = "SetFan" /\ last.arg \in 2..8 /\ last.pre.fan = last.arg) =>
          SumOf(log, "step") = 0
\* C35, what holds: without BackstepRatio, Move(0) with remainder 0 sends 0
\* steps, and SetFan to the stored level sends a net of 0 steps and keeps the
\* remainder when the remainder is below half a step; at a remainder of half
\* a step it sends the one step the rounding gives. With BackstepRatio > 0,
\* Move(0) with remainder 0 ends the backsteps behind where it began.
C35_NoDisplacementWithoutBacksteps ==
    /\ (last.op = "Move" /\ last.arg = 0 /\ last.pre.remainder = 0) =>
          SumOf(log, "step") = -(IF cfg.BackstepRatio > 0
                                 THEN cfg.StepsPerIncrement \div cfg.BackstepRatio
                                 ELSE 0)
    /\ (/\ last.op = "SetFan" /\ last.arg \in 2..8 /\ last.pre.fan = last.arg
        /\ cfg.BackstepRatio = 0) =>
          /\ 2 * Abs(last.pre.remainder) < Scale =>
                SumOf(log, "step") = 0 /\ d.remainder = last.pre.remainder
          /\ 2 * Abs(last.pre.remainder) = Scale =>
                /\ SumOf(log, "step") = Sign(last.pre.remainder)
                /\ d.remainder = -last.pre.remainder
\* SetFan(3) at fan 3 with a quarter of a step carried: no step, remainder kept
C35_Witness ==
    /\ last.op = "SetFan" /\ last.arg = 3 /\ last.pre.fan = 3
    /\ cfg.BackstepRatio = 0
    /\ 4 * Abs(last.pre.remainder) = Scale
    /\ SumOf(log, "step") = 0 /\ d.remainder = last.pre.remainder
\* Controller.GoToMode run on the state the last call began in
OnController == Controller_GoToMode([d |-> last.pre, log |-> <<>>, ret |-> FALSE, err |-> FALSE], last.arg)
\* the one case in which the two differ: already at the target, on a started
\* device whose select mode has timed out
AtTargetTimedOut ==
    /\ last.arg # ControlModeUnknown
    /\ last.pre.currentControlMode = last.arg
    /\ ~NoTimeout(last.pre)

\* C36 as stated: from the same state and with the same target,
\* Controller.GoToMode and Device.GoToMode make the same clicks, end in the
\* same mode (and state) and return the same boolean.
C36_GoToModeEquivalent ==
    last.op = "GoToMode" =>
        /\ OnController.log = log
        /\ OnController.d = d
        /\ OnController.ret = last.ret
\* C36, what holds: the two agree on every call but one made at the target
\* on a started device whose select mode has timed out; there Device.GoToMode
\* makes the re-arm click, records its time and returns true, and
\* Controller.GoToMode makes no click, changes nothing and returns false.
C36_EquivalentButAtTarget ==
    last.op = "GoToMode" =>
        /\ ~AtTargetTimedOut =>
              /\ OnController.log = log
              /\ OnController.d = d
              /\ OnController.ret = last.ret
        /\ AtTargetTimedOut =>
              /\ Count(log, "click") = 1 /\ last.ret
              /\ d = [last.pre EXCEPT !.lastClick = Now]
              /\ Count(OnController.log, "click") = 0 /\ ~OnController.ret
              /\ OnController.d = last.pre
\* GoToMode(Timer) from Fan after the select mode timed out: re-arm and 2 clicks, both
C36_Witness ==
    /\ last.op = "GoToMode" /\ last.arg = ControlModeTimer
    /\ last.pre.currentControlMode = ControlModeFan
    /\ ~NoTimeout(last.pre)
    /\ Count(log, "click") = 3 /\ last.ret
    /\ OnController.log = log /\ OnController.d = d /\ OnController.ret
\* C37 as stated: in Device.GoToMode the mode advances by one Next only for a
\* click whose press and release the servo both accepted; with a servo that
\* fails no click is delivered and the mode stays where it was.
C37_ModeAdvancesOnlyOnDeliveredClick ==
    (last.op = "GoToMode" /\ servo # "ok") =>
        /\ Count(log, "mode") = 0
        /\ d.currentControlMode = last.pre.currentControlMode
\* C37, what Device.GoToMode does: the mode advances by one Next after every
\* click of the loop, delivered or not, and the call returns at the target;
\* with a failing servo lastClick alone shows that no click was delivered.
C37_ModeAdvancesPerAttempt ==
    (last.op = "GoToMode" /\ last.arg \in Cycle) =>
        /\ Count(log, "mode") = Count(log, "click") - RearmClicks(last.pre, last.arg)
        /\ Count(log, "mode") = WorkingClicks(last.pre.currentControlMode, last.arg)
        /\ d.currentControlMode = last.arg
        /\ servo # "ok" => d.lastClick = last.pre.lastClick
\* GoToMode(Power) from Fan with a servo that fails at the release: the mode is
\* Power, the click was not delivered
C37_Witness ==
    /\ last.op = "GoToMode" /\ last.arg = ControlModePower
    /\ last.pre.currentControlMode = ControlModeFan
    /\ servo = "reset"
    /\ Count(log, "click") = 1 /\ Count(log, "mode") = 1
    /\ d.currentControlMode = ControlModePower
    /\ d.lastClick = last.pre.lastClick
\* C38 as stated: under a fractional calibration without compensation, after
\* any interleaving of MoveFan and MovePower calls, the steps driven in each
\* control's mode differ by less than one step from stepsPerIncrement times the
\* net increments commanded for that control.
C38_EachControlWithinOneStep ==
    \A c \in {"fan", "power"} :
        Abs(moved[c].steps * Scale - moved[c].inc * cfg.StepsPerIncrement) < Scale
\* C38, what holds: the one remainder is carried from a move of one control
\* into the next move of the other, so it is the steps of both controls
\* together that track stepsPerIncrement times the increments of both
\* together, to within the remainder, which is at most half a step.
C38_ControlsTogetherWithinHalfStep ==
    /\ (moved.fan.steps + moved.power.steps) * Scale + d.remainder
          = (moved.fan.inc + moved.power.inc) * cfg.StepsPerIncrement
    /\ 2 * Abs(d.remainder) <= Scale
\* MoveFan(1), MovePower(1), MoveFan(1) at 2.5 steps: 3 + 2 + 3 steps, half a step over
C38_Witness ==
    /\ 2 * cfg.StepsPerIncrement = 5 * Scale
    /\ last.op = "MoveFan" /\ last.arg = 1
    /\ moved.fan = [inc |-> 2, steps |-> 6]
    /\ moved.power = [inc |-> 1, steps |-> 2]
    /\ 2 * d.remainder = -Scale
\* C39: over any sequence of presses of the state button the UI state
\* advances one step per press from None to Done and never beyond, the button
\* being disabled at Done and not before; waitForStart, waitForFC and the
\* stop channel of every timer are closed at most once, and no press panics.
C39_StateButton ==
    /\ roasterUI.currentState \in stateNone..stateDone
    /\ roasterUI.currentState = roasterUI.presses
    /\ roasterUI.buttonText = state_next(roasterUI.currentState)
    /\ roasterUI.disabled <=> roasterUI.currentState = stateDone
    /\ (ENABLED PressStateButton) <=> roasterUI.currentState < stateDone
    /\ ~roasterUI.panicked
    /\ \A c \in Channels : roasterUI.closes[c] <= 1
    /\ \A c \in Channels : roasterUI.closed[c] <=> roasterUI.closes[c] = 1
\* five presses: Done, the button disabled, every channel closed once
C39_Witness ==
    /\ roasterUI.currentState = stateDone /\ roasterUI.presses = 5
    /\ roasterUI.disabled
    /\ ~ENABLED PressStateButton
    /\ \A c \in Channels : roasterUI.closes[c] = 1
    /\ roasterUI.written = <<"I11\nS\nPREHEAT", "ROASTING", "FC", "COOL", "DONE">>
====
